-------------------------- MODULE Dialogue_proofs --------------------------
(* Proofs about Dialogue and DialogueHistory, for any answers of the       *)
(* classifier and any length of the session.                               *)
EXTENDS DialogueHistory, FiniteSetTheorems, TLAPS

(* While the LLM is awaited, a mood other than neutral has just been       *)
(* restarted: this is what keeps the decay from ever striking.             *)
MoodIsFresh == pc = "answering" /\ machine.emotion # "neutral" => machine.since = 0

IInv ==
  /\ TypeOK
  /\ FreshTurn
  /\ \A e \in machine.history : e.turn <= machine.turn
  /\ MoodIsFresh
  /\ ResponseIsCurrent
  /\ pc = "answering" => pending.new = machine.emotion

-----------------------------------------------------------------------------
LEMMA AffinityLemma ==
  ASSUME NEW a \in AffinityRange, NEW d \in -20 .. 15
  PROVE  AffinityAfter(a, d) \in AffinityRange
  BY DEF AffinityAfter, AffinityRange

LEMMA LevelLemma ==
  ASSUME NEW a \in AffinityRange
  PROVE  LevelOf(a) \in AffinityLevel
  BY DEF LevelOf, AffinityLevel, AffinityRange

LEMMA CooledLemma ==
  ASSUME NEW d \in -20 .. 15, NEW h \in {0, 1, 2}
  PROVE  Cooled(d, h) \in -20 .. 15
  <1>1. CASE h = 0
    BY <1>1 DEF Cooled
  <1>2. CASE h = 1
    BY <1>2 DEF Cooled
  <1>3. CASE h = 2
    BY <1>3 DEF Cooled
  <1> QED
    BY <1>1, <1>2, <1>3

LEMMA ReactionLemma ==
  ASSUME NEW r \in Reading
  PROVE  /\ Reaction(r)[2] \in -20 .. 15
         /\ Reaction(r) # Keep => Reaction(r)[1] \in EmotionState
  <1>1. CASE r.repeated
    BY <1>1 DEF Reaction, Keep, EmotionState
  <1>2. CASE ~r.repeated /\ r.sentiment = "positive" /\ r.band # "low"
    BY <1>2 DEF Reaction, Keep, EmotionState
  <1>3. CASE ~r.repeated /\ r.sentiment = "negative" /\ r.band = "high"
    BY <1>3 DEF Reaction, Keep, EmotionState
  <1>4. CASE ~r.repeated /\ r.sentiment = "negative" /\ r.band = "mid"
    BY <1>4 DEF Reaction, Keep, EmotionState
  <1>5. CASE /\ ~r.repeated
             /\ ~(r.sentiment = "positive" /\ r.band # "low")
             /\ ~(r.sentiment = "negative" /\ r.band \in {"mid", "high"})
    BY <1>5 DEF Reaction, Keep, EmotionState
  <1> QED
    BY <1>1, <1>2, <1>3, <1>4, <1>5 DEF Reading, Band

(* update() returns a well-formed machine whose mood, if any, is fresh. *)
LEMMA UpdateLemma ==
  ASSUME NEW m \in Machine, NEW r \in Reading
  PROVE  /\ Update(m, r) \in Machine
         /\ AffinityDelta(m, r) \in -20 .. 15
         /\ Update(m, r).turn = m.turn
         /\ Update(m, r).emotion # "neutral" => Update(m, r).since = 0
         /\ m.emotion # "neutral" => Update(m, r).emotion # "neutral"
         /\ Update(m, r).history \subseteq
              m.history \cup {[trigger |-> TriggerOf(r), turn |-> m.turn]}
  <1>1. NextEmotion(m, r) \in EmotionState
    BY ReactionLemma DEF NextEmotion, Machine
  <1>2. TriggerOf(r) \in Trigger
    BY DEF TriggerOf, Trigger, Reading
  <1>3. [trigger |-> TriggerOf(r), turn |-> m.turn] \in Entry
    BY <1>2 DEF Entry, Machine
  <1>4. Update(m, r) \in Machine
    BY <1>1, <1>3 DEF Update, Machine
  <1>5. AffinityDelta(m, r) \in -20 .. 15
    <2>1. CooldownHalves(m, TriggerOf(r)) \in {0, 1, 2}
      BY DEF CooldownHalves
    <2> QED
      BY <2>1, ReactionLemma, CooledLemma DEF AffinityDelta
  <1>6. Update(m, r).emotion # "neutral" => Update(m, r).since = 0
    BY DEF Update
  <1>7. Reaction(r) # Keep => Reaction(r)[1] # "neutral"
    BY DEF Reaction, Keep
  <1>8. m.emotion # "neutral" => Update(m, r).emotion # "neutral"
    BY <1>7 DEF Update, NextEmotion
  <1> QED
    BY <1>4, <1>5, <1>6, <1>8 DEF Update

(* tick() on a machine whose mood is fresh does not change the mood. *)
LEMMA TickTurnLemma ==
  ASSUME NEW m \in Machine, m.emotion # "neutral" => m.since = 0
  PROVE  /\ TickTurn(m) \in Machine
         /\ TickTurn(m).turn = m.turn + 1
         /\ TickTurn(m).history = m.history
         /\ TickTurn(m).emotion = m.emotion
  <1>2. ~(m.emotion # "neutral" /\ m.since + 1 >= DecayTurns[m.emotion])
    <2>1. CASE m.emotion = "neutral"
      BY <2>1
    <2>2. CASE m.emotion # "neutral"
      <3>1. DecayTurns[m.emotion] \in {3, 5}
        BY <2>2 DEF DecayTurns, EmotionState, Machine
      <3> QED
        BY <2>2, <3>1
    <2> QED
      BY <2>1, <2>2
  <1> DEFINE t == m.turn + 1
             n == m.since + 1
  <1>3. t \in Nat /\ n \in Nat
    BY DEF Machine
  <1>4. TickTurn(m) = [m EXCEPT !.turn = t, !.since = n, !.emotion = m.emotion]
    BY <1>2 DEF TickTurn, Machine
  <1>5. TickTurn(m).turn = m.turn + 1
    BY <1>4 DEF Machine
  <1> HIDE DEF t, n
  <1> QED
    BY <1>3, <1>4, <1>5 DEF Machine

-----------------------------------------------------------------------------
LEMMA InitIInv == Init => IInv
  <1>1. NewMachine \in Machine
    BY DEF NewMachine, Machine, EmotionState
  <1>2. NoPending \in Pending
    BY DEF NoPending, Pending, EmotionState
  <1>3. InitialAffinity \in AffinityRange
    BY DEF InitialAffinity, AffinityRange
  <1>4. Respond("none", NewMachine, "none", InitialAffinity, 0) \in Response
    BY <1>3, LevelLemma DEF Respond, Response, NewMachine, EmotionState
  <1> QED
    BY <1>1, <1>2, <1>3, <1>4
       DEF Init, IInv, TypeOK, FreshTurn, MoodIsFresh, ResponseIsCurrent, NewMachine, Respond

LEMMA RejectIInv ==
  ASSUME IInv, pc \in {"idle", "classifying"}, Reject
  PROVE  IInv'
  <1>1. /\ affinity' \in AffinityRange
        /\ machine' = machine /\ pending' = pending /\ pc' = "idle"
        /\ machine \in Machine /\ pending \in Pending
    BY AffinityLemma DEF IInv, TypeOK, Reject
  <1>2. response' = Respond("blocked", machine, "none", affinity', -15)
    BY DEF Reject
  <1>3. response' \in Response
    BY <1>1, <1>2, LevelLemma DEF Respond, Response, Machine
  <1> QED
    BY <1>1, <1>2, <1>3
       DEF IInv, TypeOK, FreshTurn, MoodIsFresh, ResponseIsCurrent, Respond

LEMMA RetrievalFailsIInv ==
  ASSUME IInv, RetrievalFails
  PROVE  IInv'
  <1>1. /\ affinity' = affinity /\ machine' = machine /\ pending' = pending
        /\ pc = "classifying" /\ pc' = "idle"
        /\ affinity \in AffinityRange /\ machine \in Machine
        /\ response' = Respond("raised", machine, "none", affinity, 0)
    BY DEF IInv, TypeOK, RetrievalFails
  <1>2. response' \in Response
    BY <1>1, LevelLemma DEF Respond, Response, Machine
  <1> QED
    BY <1>1, <1>2
       DEF IInv, TypeOK, FreshTurn, MoodIsFresh, ResponseIsCurrent, Respond

(* What the classifier returns is a reading, whatever the LLM said.        *)
LEMMA ReadingsType == Readings \subseteq Reading
  <1>1. Unclassified \in Reading
    BY DEF Unclassified, Reading, Sentiment, Band, Intent
  <1>2. ASSUME NEW a \in Answers
        PROVE  Classified(a) \in Reading
    <2>1. a \in Answer
      BY DialogueAssumption
    <2>2. (IF a.sure /\ a.intent \in Intent THEN a.intent ELSE "general_chat") \in Intent
      BY DEF Intent
    <2> QED
      BY <2>1, <2>2 DEF Classified, Answer, Reading
  <1> QED
    BY <1>1, <1>2 DEF Readings

LEMMA UpdateEmotionIInv ==
  ASSUME IInv, NEW r \in Readings, UpdateEmotion(r)
  PROVE  IInv'
  <1>1. /\ pc = "classifying" /\ pc' = "answering"
        /\ affinity' = affinity /\ response' = response
        /\ machine' = Update(machine, r)
        /\ machine \in Machine
    BY DEF IInv, TypeOK, UpdateEmotion
  <1>2. r \in Reading
    BY ReadingsType
  <1> DEFINE e0 == [trigger |-> TriggerOf(r), turn |-> machine.turn]
  <1>3. /\ machine' \in Machine
        /\ machine'.turn = machine.turn
        /\ machine'.emotion # "neutral" => machine'.since = 0
        /\ machine'.history \subseteq machine.history \cup {e0}
        /\ AffinityDelta(machine, r) \in -20 .. 15
    BY <1>1, <1>2, UpdateLemma
  <1>4. pending' \in Pending /\ pending'.new = machine'.emotion
    <2>1. pending' = [previous |-> machine.emotion, new |-> machine'.emotion,
                      delta |-> AffinityDelta(machine, r)]
      BY DEF UpdateEmotion
    <2> QED
      BY <2>1, <1>1, <1>3 DEF Pending, Machine
  <1>5. \A e \in machine.history : e.turn < machine.turn
    BY <1>1 DEF IInv, FreshTurn
  <1>6. /\ \A e \in machine'.history : e.turn <= machine'.turn
        /\ \A e, f \in machine'.history : e.turn = f.turn => e = f
    <2>1. e0.turn = machine.turn /\ machine.turn \in Nat
      BY <1>1 DEF Machine
    <2>2. \A e \in machine.history : e.turn \in Nat
      BY <1>1 DEF Machine, Entry
    <2> HIDE DEF e0
    <2> QED
      BY <2>1, <2>2, <1>1, <1>3, <1>5 DEF IInv, FreshTurn
  <1> QED
    BY <1>1, <1>3, <1>4, <1>6
       DEF IInv, TypeOK, FreshTurn, MoodIsFresh, ResponseIsCurrent

LEMMA FinishTurnIInv ==
  ASSUME IInv, NEW kind \in {"answer", "fallback"}, FinishTurn(kind)
  PROVE  IInv' /\ machine'.emotion = machine.emotion
  <1>1. /\ pc = "answering" /\ pc' = "idle"
        /\ machine' = TickTurn(machine)
        /\ pending' = NoPending
        /\ affinity' \in AffinityRange
        /\ machine \in Machine /\ pending \in Pending
        /\ machine.emotion # "neutral" => machine.since = 0
        /\ pending.new = machine.emotion
    BY AffinityLemma DEF IInv, TypeOK, FinishTurn, MoodIsFresh, Pending
  <1>2. /\ machine' \in Machine
        /\ machine'.turn = machine.turn + 1
        /\ machine'.history = machine.history
        /\ machine'.emotion = machine.emotion
    BY <1>1, TickTurnLemma
  <1>3. response' = Respond(kind, machine', EmotionChange, affinity', pending.delta)
    BY DEF FinishTurn
  <1>4. EmotionChange \in {"none"} \cup (EmotionState \X EmotionState)
    BY <1>1 DEF EmotionChange, Pending
  <1>5. response' \in Response
    BY <1>1, <1>2, <1>3, <1>4, LevelLemma DEF Respond, Response, Machine, Pending
  <1>6. NoPending \in Pending
    BY DEF NoPending, Pending, EmotionState
  <1>7. \A e \in machine'.history : e.turn < machine'.turn
    <2>1. \A e \in machine.history : e.turn \in Nat /\ e.turn <= machine.turn
      BY <1>1 DEF IInv, Machine, Entry
    <2> QED
      BY <2>1, <1>1, <1>2 DEF Machine
  <1>8. FreshTurn' /\ \A e \in machine'.history : e.turn <= machine'.turn
    <2>1. \A e \in machine'.history : e.turn \in Nat
      BY <1>2 DEF Machine, Entry
    <2>2. machine'.turn \in Nat
      BY <1>2 DEF Machine
    <2> QED
      BY <2>1, <2>2, <1>2, <1>7 DEF IInv, FreshTurn
  <1>9. ResponseIsCurrent'
    <2>1. /\ response'.emotion = machine'.emotion
          /\ response'.affinity = affinity'
          /\ response'.level = LevelOf(affinity')
          /\ response'.emotionChange = EmotionChange
      BY <1>3 DEF Respond
    <2>2. EmotionChange # "none" => EmotionChange[2] = machine'.emotion
      BY <1>1, <1>2 DEF EmotionChange
    <2> QED
      BY <2>1, <2>2 DEF ResponseIsCurrent
  <1> QED
    BY <1>1, <1>2, <1>5, <1>6, <1>8, <1>9 DEF IInv, TypeOK, MoodIsFresh

LEMMA NextIInv == IInv /\ [Next]_vars => IInv'
  <1> SUFFICES ASSUME IInv, [Next]_vars
               PROVE  IInv'
    OBVIOUS
  <1>1. CASE FilterBlocks \/ ClassifierBlocks
    BY <1>1, RejectIInv DEF FilterBlocks, ClassifierBlocks
  <1>2. CASE StartClassification
    BY <1>2
       DEF StartClassification, IInv, TypeOK, FreshTurn, MoodIsFresh, ResponseIsCurrent
  <1>3. CASE UNCHANGED vars
    BY <1>3 DEF vars, IInv, TypeOK, FreshTurn, MoodIsFresh, ResponseIsCurrent
  <1> QED
    BY <1>1, <1>2, <1>3, RetrievalFailsIInv, UpdateEmotionIInv, FinishTurnIInv DEF Next

-----------------------------------------------------------------------------
(* The engine's state and its responses stay within their types: favour is *)
(* between 0 and 100 and every reported delta between -20 and 15. *)
THEOREM TypeCorrect == Spec => []TypeOK
  <1>1. IInv => TypeOK
    BY DEF IInv
  <1> QED
    BY <1>1, InitIInv, NextIInv, PTL DEF Spec

(* A turn's cooldown entry is the only one of its turn. *)
THEOREM TurnsAreFresh == Spec => []FreshTurn
  <1>1. IInv => FreshTurn
    BY DEF IInv
  <1> QED
    BY <1>1, InitIInv, NextIInv, PTL DEF Spec

(* The last response describes the NPC between messages. *)
THEOREM ResponsesAreCurrent == Spec => []ResponseIsCurrent
  <1>1. IInv => ResponseIsCurrent
    BY DEF IInv
  <1> QED
    BY <1>1, InitIInv, NextIInv, PTL DEF Spec

-----------------------------------------------------------------------------
(* The ledger of DialogueHistory. *)

Row == [trigger : Trigger, delta : -20 .. 15, full : -20 .. 15]

(* One row per turn whose emotion is updated.                              *)
LedgerOK ==
  /\ ledger \in Seq(Row)
  /\ Len(ledger) = IF pc = "answering" THEN machine.turn + 1 ELSE machine.turn

(* The machine still remembers the last eleven of them, twice as many as   *)
(* the cooldown looks at: what update prunes is never missed.              *)
Remembered ==
  \A i \in DOMAIN ledger : Len(ledger) - i <= 10 =>
    [trigger |-> ledger[i].trigger, turn |-> i - 1] \in machine.history

HInv ==
  /\ IInv
  /\ LedgerOK
  /\ IsFiniteSet(machine.history)
  /\ Remembered
  /\ CooldownHolds

LEMMA InitHInv == HInit => HInv
  <1>1. HInit => machine.history = {} /\ ledger = <<>> /\ pc = "idle" /\ machine.turn = 0
    BY DEF HInit, Init, NewMachine
  <1>2. HInit => IInv /\ IsFiniteSet(machine.history)
    BY <1>1, InitIInv, FS_EmptySet DEF HInit
  <1>3. ledger = <<>> => ledger \in Seq(Row) /\ Len(ledger) = 0 /\ DOMAIN ledger = {}
    OBVIOUS
  <1>4. HInit => LedgerOK /\ Remembered
    BY <1>1, <1>3 DEF LedgerOK, Remembered
  <1>5. HInit => CooldownHolds
    BY <1>1, <1>3 DEF CooldownHolds
  <1> QED
    BY <1>2, <1>4, <1>5 DEF HInv

(* Every step of the ledger's specification is one of the dialogue.        *)
LEMMA HStep == [HNext]_hvars => [Next]_vars
BY DEF HNext, HUpdateEmotion, Next, hvars, vars

(* The entries of a trigger that the cooldown sees within n turns.         *)
Within(m, trigger, n) == {e \in m.history : e.trigger = trigger /\ m.turn - e.turn <= n}

(* A repetition costs: seen once within five turns, a trigger moves the    *)
(* favour by less than its full amount; seen twice within three, not at    *)
(* all.                                                                    *)
LEMMA RepetitionCosts ==
  ASSUME NEW m \in Machine, IsFiniteSet(m.history), NEW r \in Reading
  PROVE  LET d == AffinityDelta(m, r)
         IN  /\ d \in -20 .. 15 /\ Reaction(r)[2] \in -20 .. 15
             /\ Within(m, TriggerOf(r), 5) # {} => d = 0 \/ d # Reaction(r)[2]
             /\ (\E e, f \in Within(m, TriggerOf(r), 3) : e # f) => d = 0
  <1> DEFINE h == CooldownHalves(m, TriggerOf(r))
             three == Within(m, TriggerOf(r), 3)
             full == Reaction(r)[2]
  <1>1. AffinityDelta(m, r) = Cooled(full, h) /\ full \in -20 .. 15
    BY ReactionLemma DEF AffinityDelta
  <1>2. AffinityDelta(m, r) \in -20 .. 15
    BY UpdateLemma
  <1>3. ASSUME Within(m, TriggerOf(r), 5) # {}
        PROVE  h \in {1, 2}
    BY <1>3 DEF CooldownHalves, Within
  <1>4. ASSUME NEW e \in three, NEW f \in three, e # f
        PROVE  h = 2
    <2>1. three \subseteq Within(m, TriggerOf(r), 5)
      <3>1. \A g \in m.history : m.turn - g.turn <= 3 => m.turn - g.turn <= 5
        BY DEF Machine, Entry
      <3> QED
        BY <3>1 DEF Within
    <2>2. IsFiniteSet(three)
      BY FS_Subset DEF Within
    <2>3. Cardinality(three) # 1
      BY <1>4, <2>2, FS_Singleton
    <2> QED
      BY <1>4, <2>1, <2>3 DEF CooldownHalves, Within
  <1>5. h = 2 => Cooled(full, h) = 0
    BY DEF Cooled
  <1>6. ASSUME h = 1, Cooled(full, h) # 0
        PROVE  Cooled(full, h) # full
    <2>1. Cooled(full, h) = IF full >= 0 THEN full \div 2 ELSE -((-full) \div 2)
      BY <1>6 DEF Cooled
    <2> HIDE DEF full, h
    <2> QED
      BY <1>1, <1>6, <2>1
  <1> HIDE DEF h, full
  <1> QED
    BY <1>1, <1>2, <1>3, <1>4, <1>5, <1>6 DEF full

(* A turn's row joins the ledger as the machine takes the message.         *)
LEMMA LedgerGrows ==
  ASSUME HInv, NEW r \in Readings, HUpdateEmotion(r)
  PROVE  HInv'
  <1> DEFINE n == Len(ledger) + 1
             row == [trigger |-> TriggerOf(r), delta |-> AffinityDelta(machine, r),
                     full |-> Reaction(r)[2]]
  <1>1. /\ pc = "classifying" /\ pc' = "answering"
        /\ machine' = Update(machine, r)
        /\ machine \in Machine /\ r \in Reading
        /\ ledger' = Append(ledger, row)
    BY ReadingsType DEF HUpdateEmotion, UpdateEmotion, HInv, IInv, TypeOK
  <1>2. /\ ledger \in Seq(Row) /\ Len(ledger) = machine.turn
        /\ machine.turn \in Nat /\ n = machine.turn + 1
    BY <1>1 DEF HInv, LedgerOK, Machine
  <1>3. TriggerOf(r) \in Trigger
    BY <1>1 DEF TriggerOf, Trigger, Reading
  <1>4. /\ row.delta \in -20 .. 15 /\ row.full \in -20 .. 15
        /\ Within(machine, row.trigger, 5) # {} => row.delta = 0 \/ row.delta # row.full
        /\ (\E e, f \in Within(machine, row.trigger, 3) : e # f) => row.delta = 0
    BY <1>1, RepetitionCosts DEF HInv
  <1>5. row \in Row /\ row.trigger = TriggerOf(r)
    BY <1>3, <1>4 DEF Row
  <1> HIDE DEF row
  <1>6. /\ ledger' \in Seq(Row) /\ Len(ledger') = n
        /\ DOMAIN ledger' = 1 .. n
        /\ ledger'[n] = row
        /\ \A i \in 1 .. Len(ledger) : ledger'[i] = ledger[i]
    BY <1>1, <1>2, <1>5
  <1>7. IInv'
    BY <1>1, UpdateEmotionIInv DEF HUpdateEmotion, HInv
  <1>8. /\ machine'.turn = machine.turn
        /\ machine'.history = {e \in machine.history : machine.turn - e.turn <= 10}
                                 \cup {[trigger |-> TriggerOf(r), turn |-> machine.turn]}
    BY <1>1 DEF Update
  <1>9. IsFiniteSet(machine'.history)
    <2> DEFINE kept == {e \in machine.history : machine.turn - e.turn <= 10}
    <2>1. IsFiniteSet(kept)
      BY FS_Subset DEF HInv
    <2>2. machine'.history = kept \cup {[trigger |-> TriggerOf(r), turn |-> machine.turn]}
      BY <1>8
    <2> HIDE DEF kept
    <2> QED
      BY <2>1, <2>2, FS_AddElement
  <1>10. LedgerOK'
    BY <1>1, <1>2, <1>6, <1>8 DEF LedgerOK
  <1>11. Remembered'
    <2> SUFFICES ASSUME NEW i \in 1 .. n, n - i <= 10
                 PROVE  [trigger |-> ledger'[i].trigger, turn |-> i - 1] \in machine'.history
      BY <1>6 DEF Remembered
    <2>1. CASE i = n
      BY <1>2, <1>5, <1>6, <1>8, <2>1
    <2>2. CASE i # n
      <3>1. i \in 1 .. Len(ledger) /\ Len(ledger) - i <= 10 /\ machine.turn - (i - 1) <= 10
        BY <1>2, <2>2
      <3>2. [trigger |-> ledger[i].trigger, turn |-> i - 1] \in machine.history
        BY <1>2, <3>1 DEF HInv, Remembered
      <3> QED
        BY <1>6, <1>8, <3>1, <3>2
    <2> QED
      BY <2>1, <2>2
  <1>12. ASSUME NEW i \in 1 .. Len(ledger), NEW k \in {3, 5}, n <= i + k,
                ledger[i].trigger = row.trigger
         PROVE  [trigger |-> row.trigger, turn |-> i - 1] \in Within(machine, row.trigger, k)
    <2>1. Len(ledger) - i <= 10 /\ machine.turn - (i - 1) <= k
      BY <1>2, <1>12
    <2>2. [trigger |-> row.trigger, turn |-> i - 1] \in machine.history
      BY <1>2, <1>12, <2>1 DEF HInv, Remembered
    <2> QED
      BY <2>1, <2>2 DEF Within
  <1>13. CooldownHolds'
    <2>1. ASSUME NEW i \in 1 .. n, NEW j \in 1 .. n, i < j, j <= i + 5,
                 ledger'[i].trigger = ledger'[j].trigger
          PROVE  ledger'[j].delta = 0 \/ ledger'[j].delta # ledger'[j].full
      <3>1. CASE j = n
        <4>1. i \in 1 .. Len(ledger) /\ ledger[i].trigger = row.trigger
          BY <1>2, <1>6, <2>1, <3>1
        <4>2. Within(machine, row.trigger, 5) # {}
          BY <1>12, <2>1, <3>1, <4>1
        <4> QED
          BY <1>4, <1>6, <3>1, <4>2
      <3>2. CASE j # n
        <4>1. i \in 1 .. Len(ledger) /\ j \in 1 .. Len(ledger)
          BY <1>2, <2>1, <3>2
        <4> QED
          BY <1>6, <2>1, <4>1 DEF HInv, CooldownHolds
      <3> QED
        BY <3>1, <3>2
    <2>2. ASSUME NEW i \in 1 .. n, NEW j \in 1 .. n, NEW k \in 1 .. n,
                 i < j, j < k, k <= i + 3,
                 ledger'[i].trigger = ledger'[j].trigger,
                 ledger'[j].trigger = ledger'[k].trigger
          PROVE  ledger'[i].delta = 0 \/ ledger'[j].delta = 0 \/ ledger'[k].delta = 0
      <3>1. CASE k = n
        <4>1. /\ i \in 1 .. Len(ledger) /\ ledger[i].trigger = row.trigger
              /\ j \in 1 .. Len(ledger) /\ ledger[j].trigger = row.trigger
              /\ n <= i + 3 /\ n <= j + 3
          BY <1>2, <1>6, <2>2, <3>1
        <4>2. /\ [trigger |-> row.trigger, turn |-> i - 1] \in Within(machine, row.trigger, 3)
              /\ [trigger |-> row.trigger, turn |-> j - 1] \in Within(machine, row.trigger, 3)
          BY <1>12, <4>1
        <4>3. i - 1 # j - 1
          BY <2>2
        <4>4. [trigger |-> row.trigger, turn |-> i - 1] # [trigger |-> row.trigger, turn |-> j - 1]
          BY <4>3
        <4> QED
          BY <1>4, <1>6, <3>1, <4>2, <4>4
      <3>2. CASE k # n
        <4>1. i \in 1 .. Len(ledger) /\ j \in 1 .. Len(ledger) /\ k \in 1 .. Len(ledger)
          BY <1>2, <2>2, <3>2
        <4> QED
          BY <1>6, <2>2, <4>1 DEF HInv, CooldownHolds
      <3> QED
        BY <3>1, <3>2
    <2> QED
      BY <1>6, <2>1, <2>2 DEF CooldownHolds
  <1> QED
    BY <1>7, <1>9, <1>10, <1>11, <1>13 DEF HInv

(* Every other step leaves the ledger and the history alone.               *)
LEMMA LedgerStays ==
  ASSUME HInv, [Next]_vars, ledger' = ledger, \A r \in Readings : ~UpdateEmotion(r)
  PROVE  HInv'
  <1>1. IInv'
    BY NextIInv DEF HInv
  <1>2. /\ machine'.history = machine.history
        /\ LedgerOK'
    <2>1. CASE \E kind \in {"answer", "fallback"} : FinishTurn(kind)
      <3>1. pc = "answering" /\ pc' = "idle" /\ machine' = TickTurn(machine)
        BY <2>1 DEF FinishTurn
      <3>2. machine \in Machine /\ (machine.emotion # "neutral" => machine.since = 0)
        BY <3>1 DEF HInv, IInv, TypeOK, MoodIsFresh
      <3> QED
        BY <3>1, <3>2, TickTurnLemma DEF HInv, LedgerOK
    <2>2. CASE FilterBlocks \/ ClassifierBlocks
      BY <2>2 DEF FilterBlocks, ClassifierBlocks, Reject, HInv, LedgerOK
    <2>3. CASE StartClassification \/ RetrievalFails
      BY <2>3 DEF StartClassification, RetrievalFails, HInv, LedgerOK
    <2>4. CASE UNCHANGED vars
      BY <2>4 DEF vars, HInv, LedgerOK
    <2> QED
      BY <2>1, <2>2, <2>3, <2>4 DEF Next
  <1> QED
    BY <1>1, <1>2 DEF HInv, Remembered, CooldownHolds

LEMMA NextHInv == HInv /\ [HNext]_hvars => HInv'
  <1> SUFFICES ASSUME HInv, [HNext]_hvars
               PROVE  HInv'
    OBVIOUS
  <1>1. CASE \E r \in Readings : HUpdateEmotion(r)
    BY <1>1, LedgerGrows
  <1>2. CASE ~\E r \in Readings : HUpdateEmotion(r)
    <2>1. ledger' = ledger
      BY <1>2 DEF HNext, hvars
    <2>2. ASSUME NEW r \in Readings, UpdateEmotion(r)
          PROVE  FALSE
      <3>1. pc = "classifying" /\ pc' = "answering"
        BY <2>2 DEF UpdateEmotion
      <3>2. CASE UNCHANGED hvars
        BY <3>1, <3>2 DEF hvars, vars
      <3>3. CASE HNext
        BY <1>2, <3>1, <3>3
           DEF HNext, FinishTurn, FilterBlocks, Reject, StartClassification, ClassifierBlocks,
               RetrievalFails
      <3> QED
        BY <3>2, <3>3
    <2> QED
      BY <2>1, <2>2, HStep, LedgerStays
  <1> QED
    BY <1>1, <1>2

(* DialogueHistory only adds a ledger: every behaviour of it is one of     *)
(* Dialogue, so that what is proved of the dialogue holds beside it.       *)
THEOREM HistoryImplementsDialogue == HSpec => Spec
  <1>1. HInit => Init
    BY DEF HInit
  <1> QED
    BY <1>1, HStep, PTL DEF HSpec, Spec

(* However a player orders the messages of a session of any length, no     *)
(* trigger pays twice in full within five turns and none moves the favour  *)
(* three times within four (emotion.py:70-100).                            *)
THEOREM CooldownAlwaysHolds == HSpec => []CooldownHolds
  <1>1. HInv => CooldownHolds
    BY DEF HInv
  <1> QED
    BY <1>1, InitHInv, NextHInv, PTL DEF HSpec
=============================================================================
