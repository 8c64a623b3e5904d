-------------------------- MODULE DialogueHistory --------------------------
(* Dialogue with what the engine itself forgets: the affinity deltas of    *)
(* all past turns.                                                         *)
EXTENDS Dialogue, Sequences

VARIABLE ledger   \* trigger, delta and uncooled delta of every turn, in order

hvars == <<vars, ledger>>

HInit == Init /\ ledger = <<>>

HUpdateEmotion(r) ==
  /\ UpdateEmotion(r)
  /\ ledger' = Append(ledger, [trigger |-> TriggerOf(r), delta |-> pending'.delta,
                               full |-> Reaction(r)[2]])

HNext ==
  \/ \E r \in Readings : HUpdateEmotion(r)
  \/ /\ \/ \E kind \in {"answer", "fallback"} : FinishTurn(kind)
        \/ FilterBlocks \/ StartClassification \/ ClassifierBlocks \/ RetrievalFails
     /\ UNCHANGED ledger

HSpec == HInit /\ [][HNext]_hvars

(* The cooldown keeps a player from farming one kind of message            *)
(* (emotion.py:70-100, 160-174): of two turns at most five apart only the  *)
(* first moves the favour by the full amount of their trigger, and of any  *)
(* four turns in a row at most two move it at all for one trigger.         *)
CooldownHolds ==
  LET same(i, j) == ledger[i].trigger = ledger[j].trigger
      acts(i)    == ledger[i].delta # 0
      full(i)    == acts(i) /\ ledger[i].delta = ledger[i].full
  IN  /\ \A i, j \in 1 .. Len(ledger) :
           i < j /\ j <= i + 5 /\ same(i, j) => ~full(j)
      /\ \A i, j, k \in 1 .. Len(ledger) :
           i < j /\ j < k /\ k <= i + 3 /\ same(i, j) /\ same(j, k)
             => ~(acts(i) /\ acts(j) /\ acts(k))

(* The last n turns called for no emotion. *)
Quiet(n) ==
  n <= Len(ledger) /\ \A i \in (Len(ledger) - n + 1) .. Len(ledger) : ledger[i].full = 0

(* "Decay: light emotions revert to neutral after 3 turns, heavy after 5"  *)
(* (emotion.py:61, README.md:133-134), read leniently: between messages no *)
(* mood has outlived as many turns as it lasts, none of which called for   *)
(* an emotion. update restarts the decay on those turns as well            *)
(* (emotion.py:181-183), so tick never counts beyond one.                  *)
MoodsDecay ==
  pc = "idle" /\ machine.emotion # "neutral" => ~Quiet(DecayTurns[machine.emotion])
=============================================================================
