------------------------------ MODULE Emotion ------------------------------
(***************************************************************************)
(* The NPC's mood and favour: EmotionMachine (src/npc/emotion.py) and      *)
(* AffinityManager (src/npc/affinity.py). Their methods are synchronous:   *)
(* functions from the object's fields and the arguments to its new fields. *)
(*                                                                         *)
(* The intensity is only compared with 0.6 and 0.8, so it is one of three  *)
(* bands. cooldown_history is a set of entries: a dialogue turn adds at    *)
(* most one entry with its own turn number (Dialogue!FreshTurn checks it). *)
(***************************************************************************)
EXTENDS Integers, FiniteSets

EmotionState == {"neutral", "happy", "annoyed", "sad", "excited", "angry", "suspicious"}

DecayTurns == [e \in EmotionState |->
  CASE e = "neutral" -> 0
    [] e \in {"happy", "annoyed", "sad", "excited"} -> 3
    [] e \in {"angry", "suspicious"} -> 5]

Sentiment == {"positive", "negative", "neutral"}

Intent == {"greeting", "farewell", "general_chat", "quest_inquiry", "trade_request",
           "lore_question", "relationship_talk", "provocation"}

(* sentiment_intensity: at most 0.6, above 0.6, above 0.8 *)
Band == {"low", "mid", "high"}

(* What the classifier says of a message. *)
Reading == [sentiment : Sentiment, band : Band, intent : Intent, repeated : BOOLEAN]

Trigger == (Sentiment \X Intent) \cup {<<"repeated">>}

Entry == [trigger : Trigger, turn : Nat]

Machine == [emotion : EmotionState, turn : Nat, since : Nat, history : SUBSET Entry]

NewMachine == [emotion |-> "neutral", turn |-> 0, since |-> 0, history |-> {}]

TriggerOf(r) == IF r.repeated THEN <<"repeated">> ELSE <<r.sentiment, r.intent>>

(* The emotion a message calls for, with its affinity delta before the     *)
(* cooldown; the first case that applies wins, none leaves the mood alone. *)
Keep == <<"keep", 0>>

Reaction(r) ==
  CASE r.repeated -> <<"annoyed", -3>>
    [] ~r.repeated /\ r.sentiment = "positive" /\ r.band # "low" ->
         IF r.intent = "quest_inquiry" THEN <<"excited", 15>> ELSE <<"happy", 5>>
    [] ~r.repeated /\ r.sentiment = "negative" /\ r.band = "high" -> <<"angry", -20>>
    [] ~r.repeated /\ r.sentiment = "negative" /\ r.band = "mid" -> <<"annoyed", -10>>
    [] OTHER -> IF r.intent = "provocation" THEN <<"suspicious", -5>> ELSE Keep

(* mutant: only entries of the last turn are looked at. *)
CooldownHalvesForgetful(m, trigger) ==
  LET within(n) == {e \in m.history : e.trigger = trigger /\ m.turn - e.turn <= n}
  IN  IF within(1) = {} THEN 0 ELSE 1

(* How many times the delta is halved: 0 (factor 1.0), 1 (0.5), or 2 when  *)
(* nothing is left of it (0.0). *)
CooldownHalves(m, trigger) ==
  LET within(n) == {e \in m.history : e.trigger = trigger /\ m.turn - e.turn <= n}
  IN  IF within(5) = {} THEN 0
      ELSE IF Cardinality(within(3)) = 1
              \/ (within(3) = {} /\ Cardinality(within(5)) = 1) THEN 1
      ELSE 2

(* int(delta * factor): truncation towards zero. *)
Cooled(delta, halves) ==
  CASE halves = 0 -> delta
    [] halves = 1 -> IF delta >= 0 THEN delta \div 2 ELSE -((-delta) \div 2)
    [] halves = 2 -> 0

(* update(): the affinity delta it returns ... *)
AffinityDelta(m, r) == Cooled(Reaction(r)[2], CooldownHalves(m, TriggerOf(r)))

NextEmotion(m, r) == IF Reaction(r) = Keep THEN m.emotion ELSE Reaction(r)[1]

(* ... and the machine it leaves. The decay counter restarts whenever the  *)
(* mood changes or is not neutral, also for a message that calls for none. *)
Update(m, r) ==
  [emotion |-> NextEmotion(m, r),
   turn    |-> m.turn,
   since   |-> IF NextEmotion(m, r) # m.emotion \/ m.emotion # "neutral" THEN 0 ELSE m.since,
   history |-> {e \in m.history : m.turn - e.turn <= 10}
                 \cup {[trigger |-> TriggerOf(r), turn |-> m.turn]}]

(* tick() *)
TickTurn(m) ==
  LET decayed == m.emotion # "neutral" /\ m.since + 1 >= DecayTurns[m.emotion]
  IN  [m EXCEPT !.turn = @ + 1,
                !.since = IF decayed THEN 0 ELSE @ + 1,
                !.emotion = IF decayed THEN "neutral" ELSE @]

-----------------------------------------------------------------------------
InitialAffinity == 15
AffinityRange == 0 .. 100

(* mutant: the floor is forgotten. *)
AffinityAfterUnfloored(a, delta) ==
  IF a + delta > 100 THEN 100 ELSE a + delta

(* AffinityManager.update *)
AffinityAfter(a, delta) ==
  IF a + delta < 0 THEN 0 ELSE IF a + delta > 100 THEN 100 ELSE a + delta

AffinityLevel == {"stranger", "acquaintance", "friend", "close_friend", "sworn_friend"}

(* get_level *)
LevelOf(a) ==
  CASE a <= 20 -> "stranger"
    [] a > 20 /\ a <= 40 -> "acquaintance"
    [] a > 40 /\ a <= 60 -> "friend"
    [] a > 60 /\ a <= 80 -> "close_friend"
    [] OTHER -> "sworn_friend"
=============================================================================
