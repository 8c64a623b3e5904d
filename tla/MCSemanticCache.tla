--------------------------- MODULE MCSemanticCache ---------------------------
(* SemanticCache for TLC: three answers of one NPC, of which one is close  *)
(* enough to the question, one is not and the closest does not decode,     *)
(* beside an NPC that has none.                                            *)
EXTENDS SemanticCache, TLC

CONSTANTS garon, elara, sword, e1, e2, e3

MCOwner == [e \in Entries |-> garon]

MCSim == sword :> (e1 :> 8 @@ e2 :> 5 @@ e3 :> 9)
=============================================================================
