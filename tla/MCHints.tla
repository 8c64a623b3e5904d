------------------------------ MODULE MCHints ------------------------------
(* Hints for TLC: the profile of an NPC and the document of a quest. The   *)
(* quest's second version has a new stage before the old one, under the    *)
(* same title; its third rewords the end of a section. The NPC's second    *)
(* version is longer, which shifts the positions of the quest's chunks.    *)
EXTENDS Hints, TLC

CONSTANTS monday, tuesday

TwoReloads == {monday, tuesday}
ReloadSymmetry == Permutations(TwoReloads)

TwoFiles == <<"npc", "quest">>
TypeOfFile == [npc |-> "npc", quest |-> "quest"]

S(title, text) == [title |-> title, text |-> text]

VersionsOf ==
  [npc   |-> << <<S("intro", "smith")>>, <<S("intro", "smith"), S("likes", "ore")>> >>,
   quest |-> << <<S("intro", "sword"), S("stage", "rumour")>>,
                <<S("intro", "sword"), S("stage", "offer"), S("stage", "rumour")>>,
                <<S("intro", "sword"), S("stage", "offer"), S("stage", "reworded")>> >>]

SomeReports == {-5, 30, 120}
AboutQuest == [sword |-> {"quest"}]
LeadOf == [smith |-> 1, ore |-> 2, sword |-> 3, rumour |-> 4, reworded |-> 4, offer |-> 5]
=============================================================================
