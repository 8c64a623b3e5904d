------------------------------ MODULE Dialogue ------------------------------
(***************************************************************************)
(* One DialogueEngine (src/npc/dialogue.py) with its EmotionMachine and    *)
(* AffinityManager, answering the messages of one chat session in turn.    *)
(*                                                                         *)
(* generate() awaits the intent classifier and then the LLM, so a message  *)
(* is handled in up to three steps. The texts are abstracted to whether    *)
(* the NPC answered itself or a fallback took its place.                   *)
(***************************************************************************)
EXTENDS Emotion

CONSTANTS
  Answers,     \* what the LLM may say of a message it is asked to classify
  MaxTurns     \* bound: completed turns of the session

(* The JSON of the classifier's LLM: "other" is an intent it made up, sure *)
(* a confidence of at least 0.7.                                           *)
Answer == [sentiment : Sentiment, band : Band, intent : Intent \cup {"other"},
           sure : BOOLEAN, repeated : BOOLEAN]

ASSUME DialogueAssumption ==
  /\ Answers \subseteq Answer
  /\ MaxTurns \in Nat

VARIABLES
  affinity,    \* AffinityManager._affinity
  machine,     \* the fields of the EmotionMachine
  pc,          \* the await generate() stands at
  pending,     \* generate()'s locals once the emotion is updated
  response     \* the last DialogueResponse

vars == <<affinity, machine, pc, pending, response>>

NoPending == [previous |-> "neutral", new |-> "neutral", delta |-> 0]

Pending == [previous : EmotionState, new : EmotionState, delta : -20 .. 15]

Response == [kind : {"none", "blocked", "answer", "fallback", "raised"},
             emotion : EmotionState,
             emotionChange : {"none"} \cup (EmotionState \X EmotionState),
             affinity : AffinityRange,
             affinityChange : -20 .. 15,
             level : AffinityLevel]

TypeOK ==
  /\ affinity \in AffinityRange
  /\ machine \in Machine
  /\ pc \in {"idle", "classifying", "answering"}
  /\ pending \in Pending
  /\ response \in Response

(* The response object generate() builds: it is given the emotion change   *)
(* and delta, and reads the current mood and favour. *)
Respond(kind, m, change, a, delta) ==
  [kind |-> kind, emotion |-> m.emotion, emotionChange |-> change,
   affinity |-> a, affinityChange |-> delta, level |-> LevelOf(a)]

(* What the client knows from session_start, before any response. *)
Init ==
  /\ affinity = InitialAffinity
  /\ machine = NewMachine
  /\ pc = "idle"
  /\ pending = NoPending
  /\ response = Respond("none", NewMachine, "none", InitialAffinity, 0)

(* The rejection of an injection, found by the filter or the classifier.   *)
Reject ==
  /\ affinity' = AffinityAfter(affinity, -15)
  /\ response' = Respond("blocked", machine, "none", affinity', -15)
  /\ pc' = "idle"
  /\ UNCHANGED <<machine, pending>>

(* Step 1: the rule-based filter blocks the message. *)
FilterBlocks ==
  /\ pc = "idle"
  /\ Reject

(* classify(): the LLM raises or its answer is no JSON of that form ... *)
Unclassified ==
  [sentiment |-> "neutral", band |-> "low", intent |-> "general_chat", repeated |-> FALSE]

(* ... or the answer is taken, its intent only if it is known and sure. *)
Classified(answer) ==
  [sentiment |-> answer.sentiment, band |-> answer.band, repeated |-> answer.repeated,
   intent |-> IF answer.sure /\ answer.intent \in Intent
              THEN answer.intent ELSE "general_chat"]

Readings == {Unclassified} \cup {Classified(answer) : answer \in Answers}

(* Step 1 passed: generate() awaits the classifier. *)
StartClassification ==
  /\ pc = "idle" /\ machine.turn < MaxTurns
  /\ pc' = "classifying"
  /\ UNCHANGED <<affinity, machine, pending, response>>

(* Step 2: the classifier calls the message unsafe. *)
ClassifierBlocks ==
  /\ pc = "classifying"
  /\ Reject

(* The intents that search the collection (INTENT_SEARCH_SOURCES). *)
SearchedIntents == Intent \ {"greeting", "farewell", "provocation"}

(* Step 3 raises, out of generate(): the search has no handler of its own. *)
RetrievalFails ==
  /\ pc = "classifying"
  /\ \E r \in Readings : r.intent \in SearchedIntents
  /\ pc' = "idle"
  /\ response' = Respond("raised", machine, "none", affinity, 0)
  /\ UNCHANGED <<affinity, machine, pending>>

(* Steps 2 to 4, up to the await of the LLM. *)
UpdateEmotion(r) ==
  /\ pc = "classifying"
  /\ machine' = Update(machine, r)
  /\ pending' = [previous |-> machine.emotion, new |-> machine'.emotion,
                 delta |-> AffinityDelta(machine, r)]
  /\ pc' = "answering"
  /\ UNCHANGED <<affinity, response>>

EmotionChange ==
  IF pending.previous # pending.new THEN <<pending.previous, pending.new>> ELSE "none"

(* mutant: the response is built before the favour is updated. *)
FinishTurnEarlyReport(kind) ==
  /\ pc = "answering"
  /\ affinity' = AffinityAfter(affinity, pending.delta)
  /\ machine' = TickTurn(machine)
  /\ response' = Respond(kind, machine', EmotionChange, affinity, pending.delta)
  /\ pc' = "idle"
  /\ pending' = NoPending

(* mutant: the turn of the emotion machine is not advanced. *)
FinishTurnWithoutTick(kind) ==
  /\ pc = "answering"
  /\ affinity' = AffinityAfter(affinity, pending.delta)
  /\ machine' = machine
  /\ response' = Respond(kind, machine', EmotionChange, affinity', pending.delta)
  /\ pc' = "idle"
  /\ pending' = NoPending

(* Steps 5 to 8: the LLM answered ("answer"), or it failed or its text was *)
(* out of character ("fallback"); favour, quest triggers and decay follow. *)
FinishTurn(kind) ==
  /\ pc = "answering"
  /\ affinity' = AffinityAfter(affinity, pending.delta)
  /\ machine' = TickTurn(machine)
  /\ response' = Respond(kind, machine', EmotionChange, affinity', pending.delta)
  /\ pc' = "idle"
  /\ pending' = NoPending

Next ==
  \/ FilterBlocks
  \/ StartClassification
  \/ ClassifierBlocks
  \/ RetrievalFails
  \/ \E r \in Readings : UpdateEmotion(r)
  \/ \E kind \in {"answer", "fallback"} : FinishTurn(kind)

Spec == Init /\ [][Next]_vars

-----------------------------------------------------------------------------
(* No two entries of the cooldown history are of one turn, and none is of  *)
(* the turn the next update belongs to (emotion.py:161-167, 198): a         *)
(* trigger never counts against itself.                                    *)
FreshTurn ==
  /\ \A e, f \in machine.history : e.turn = f.turn => e = f
  /\ pc # "answering" => \A e \in machine.history : e.turn < machine.turn

(* Between messages the last response describes the NPC: its emotion,      *)
(* favour and level are those of the engine, and a change of emotion it    *)
(* reports ends in the emotion it reports (dialogue.py:363-376), although  *)
(* the response is built after the decay step that could undo the change.  *)
ResponseIsCurrent ==
  pc = "idle" =>
    /\ response.emotion = machine.emotion
    /\ response.affinity = affinity
    /\ response.level = LevelOf(affinity)
    /\ response.emotionChange # "none" => response.emotionChange[2] = machine.emotion
=============================================================================
