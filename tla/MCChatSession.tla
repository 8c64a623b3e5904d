--------------------------- MODULE MCChatSession ---------------------------
(* ChatSession for TLC: a session with a conversation, whose row exists,   *)
(* beside a connection that comes and goes without a word.                 *)
EXTENDS ChatSession

CONSTANTS talker, visitor

TwoConns == {talker, visitor}
TalkerHasRow == {talker}
TalkerSpeaks == (talker :> 2) @@ (visitor :> 0)
=============================================================================
