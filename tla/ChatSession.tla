----------------------------- MODULE ChatSession -----------------------------
(***************************************************************************)
(* The handlers of /ws/chat/{npc_id} (src/api/routes/chat.py) for several  *)
(* connections to one NPC, with their short-term memory in Redis and the   *)
(* long-term memory in PostgreSQL (src/npc/memory.py).                     *)
(*                                                                         *)
(* An action is what a handler does from one await to the next. Any call   *)
(* to Redis, PostgreSQL or the engine may raise. generate() is abstracted  *)
(* to whether it updated the NPC's state and whether it raised: module     *)
(* Dialogue has the rest. A message is known by its role and its turn.     *)
(***************************************************************************)
EXTENDS Naturals, SequencesExt, FiniteSetsExt

CONSTANTS
  Conns,          \* the connections, each with its session
  ContextTurns,   \* get_recent_context: turns * 2 messages are read
  Rows,           \* sessions with a dialogue_sessions row: nothing in the
                  \* repository inserts one, the game's own backend may
  MaxMessages,    \* bound: frames the client of each connection sends
  MaxInbox        \* bound: frames waiting at the server

ASSUME ChatAssumption ==
  /\ IsFiniteSet(Conns) /\ Rows \subseteq Conns
  /\ ContextTurns \in Nat \ {0} /\ MaxMessages \in [Conns -> Nat] /\ MaxInbox \in Nat

Frames == {"text", "blank", "pong", "malformed"}

Message == [role : {"user", "npc"}, turn : Nat]

(* Where the handler is: before the session, in it, in its finally block. *)
SessionSteps ==
  {"starting", "receiving", "storing", "expiring", "refreshing", "generating",
   "streaming", "storingReply", "expiringReply", "completing", "failing"}
FinalSteps == {"reading", "summarizing", "saving", "clearing", "closing"}
Steps == {"accepted", "closed"} \cup SessionSteps \cup FinalSteps

VARIABLES
  pc,        \* the await each handler stands at
  peer,      \* the socket: open, left by the client, closed by the heartbeat
  inbox,     \* frames that arrived and were not read
  sent,      \* frames the client has sent
  turn,      \* messages the handler has taken up
  mood,      \* engine state: how often generate() has updated it
  stm,       \* Redis: the list stm:messages:<session>
  ttl,       \* Redis: whether that key will expire
  context,   \* memory_ctx["short_term_memory"]
  view,      \* the client: turn and mood of its last complete frame
  gauge,     \* websocket_connections_active
  archived   \* PostgreSQL: sessions whose row has a summary

memory == <<stm, ttl, context>>
vars == <<pc, peer, inbox, sent, turn, mood, stm, ttl, context, view, gauge,
          archived>>

TypeOK ==
  /\ pc \in [Conns -> Steps]
  /\ peer \in [Conns -> {"open", "left", "shut"}]
  /\ inbox \in [Conns -> Seq(Frames)]
  /\ sent \in [Conns -> Nat] /\ turn \in [Conns -> Nat] /\ mood \in [Conns -> Nat]
  /\ stm \in [Conns -> Seq(Message)] /\ context \in [Conns -> Seq(Message)]
  /\ ttl \in [Conns -> BOOLEAN]
  /\ view \in [Conns -> [turn : Nat, mood : Nat]]
  /\ gauge \in Nat
  /\ archived \subseteq Rows

Init ==
  /\ pc = [c \in Conns |-> "accepted"]
  /\ peer = [c \in Conns |-> "open"]
  /\ inbox = [c \in Conns |-> <<>>]
  /\ sent = [c \in Conns |-> 0]
  /\ turn = [c \in Conns |-> 0]
  /\ mood = [c \in Conns |-> 0]
  /\ stm = [c \in Conns |-> <<>>]
  /\ ttl = [c \in Conns |-> FALSE]
  /\ context = [c \in Conns |-> <<>>]
  /\ view = [c \in Conns |-> [turn |-> 0, mood |-> 0]]
  /\ gauge = 0
  /\ archived = {}

Go(c, from, to) == pc[c] = from /\ pc' = [pc EXCEPT ![c] = to]

(* A send raises only on a socket that is gone, and always on one the      *)
(* server itself has closed.                                               *)
SendWorks(c) == peer[c] # "shut"
SendRaises(c) == peer[c] # "open"

-----------------------------------------------------------------------------
(* The world around the handlers. *)

ClientSends(c, f) ==
  /\ peer[c] = "open" /\ pc[c] \in SessionSteps \ {"starting"}
  /\ sent[c] < MaxMessages[c] /\ Len(inbox[c]) < MaxInbox
  /\ inbox' = [inbox EXCEPT ![c] = Append(@, f)]
  /\ sent' = [sent EXCEPT ![c] = @ + 1]
  /\ UNCHANGED <<pc, peer, turn, mood, memory, view, gauge, archived>>

ClientLeaves(c) ==
  /\ peer[c] = "open" /\ pc[c] # "closed"
  /\ peer' = [peer EXCEPT ![c] = "left"]
  /\ UNCHANGED <<pc, inbox, sent, turn, mood, memory, view, gauge, archived>>

(* The heartbeat task finds no pong in time (module Heartbeat has when). *)
HeartbeatCloses(c) ==
  /\ peer[c] # "shut" /\ pc[c] \in SessionSteps \ {"starting"}
  /\ peer' = [peer EXCEPT ![c] = "shut"]
  /\ UNCHANGED <<pc, inbox, sent, turn, mood, memory, view, gauge, archived>>

(* Redis drops a key whose time to live is over. *)
Lapse(c) ==
  /\ ttl[c]
  /\ stm' = [stm EXCEPT ![c] = <<>>]
  /\ ttl' = [ttl EXCEPT ![c] = FALSE]
  /\ UNCHANGED <<pc, peer, inbox, sent, turn, mood, context, view, gauge, archived>>

-----------------------------------------------------------------------------
(* Opening the session. *)

(* mutant: leaving before the session is counted uncounts it all the same. *)
AbortUncounting(c) ==
  /\ Go(c, "accepted", "closed")
  /\ gauge' = IF gauge = 0 THEN 0 ELSE gauge - 1
  /\ UNCHANGED <<peer, inbox, sent, turn, mood, memory, view, archived>>

(* mutant: the same, past zero. *)
AbortUncountingUnclamped(c) ==
  /\ Go(c, "accepted", "closed")
  /\ gauge' = gauge - 1
  /\ UNCHANGED <<peer, inbox, sent, turn, mood, memory, view, archived>>

(* The NPC is unknown, or loading the memory raises: no session begins. *)
Abort(c) ==
  /\ Go(c, "accepted", "closed")
  /\ UNCHANGED <<peer, inbox, sent, turn, mood, memory, view, gauge, archived>>

(* inc_gauge *)
IncGauge == gauge' = gauge + 1

(* dec_gauge *)
DecGauge == gauge' = IF gauge = 0 THEN 0 ELSE gauge - 1

LoadContext(c) ==
  /\ Go(c, "accepted", "starting")
  /\ IncGauge
  /\ UNCHANGED <<peer, inbox, sent, turn, mood, memory, view, archived>>

StartSession(c) ==
  /\ SendWorks(c)
  /\ Go(c, "starting", "receiving")
  /\ UNCHANGED <<peer, inbox, sent, turn, mood, memory, view, gauge, archived>>

(* session_start is sent outside the try block: nothing is undone. *)
StartFails(c) ==
  /\ SendRaises(c)
  /\ Go(c, "starting", "closed")
  /\ UNCHANGED <<peer, inbox, sent, turn, mood, memory, view, gauge, archived>>

-----------------------------------------------------------------------------
(* The receive loop. *)

(* The loop is left for the finally block, which first uncounts the        *)
(* connection and then reads the session's history.                        *)
Leave(c, from) ==
  /\ Go(c, from, "reading")
  /\ DecGauge

(* mutant: a receive that raises is retried. *)
LeaveOnReceiveRetried(c) ==
  /\ pc[c] = "receiving"
  /\ UNCHANGED vars

(* receive_json finds the socket gone. *)
LeaveOnReceive(c) ==
  /\ peer[c] = "left" => inbox[c] = <<>>
  /\ peer[c] # "open"
  /\ Leave(c, "receiving")
  /\ UNCHANGED <<peer, inbox, sent, turn, mood, memory, view, archived>>

Receive(c) ==
  /\ pc[c] = "receiving" /\ inbox[c] # <<>>
  /\ inbox' = [inbox EXCEPT ![c] = Tail(@)]
  /\ \/ /\ Head(inbox[c]) = "text"
        /\ Go(c, "receiving", "storing")
        /\ turn' = [turn EXCEPT ![c] = @ + 1]
        /\ UNCHANGED gauge
     \/ /\ Head(inbox[c]) \in {"pong", "blank"}
        /\ Head(inbox[c]) = "blank" => SendWorks(c)
        /\ UNCHANGED <<pc, turn, gauge>>
     \/ /\ Head(inbox[c]) \in {"malformed", "blank"}
        /\ Head(inbox[c]) = "blank" => SendRaises(c)
        /\ Leave(c, "receiving")
        /\ UNCHANGED turn
  /\ UNCHANGED <<peer, sent, mood, memory, view, archived>>

(* mutant: LPUSH. *)
PushLeft(c, role) ==
  /\ stm' = [stm EXCEPT ![c] = <<[role |-> role, turn |-> turn[c]]>> \o @]
  /\ UNCHANGED <<ttl, context>>

(* store_message: RPUSH, then EXPIRE, which does nothing to a key that has *)
(* lapsed in between.                                                      *)
Push(c, role) ==
  /\ stm' = [stm EXCEPT ![c] = Append(@, [role |-> role, turn |-> turn[c]])]
  /\ UNCHANGED <<ttl, context>>

SetExpiry(c) ==
  /\ ttl' = [ttl EXCEPT ![c] = stm[c] # <<>>]
  /\ UNCHANGED <<stm, context>>

StoreMessage(c) ==
  /\ \/ Go(c, "storing", "expiring") /\ Push(c, "user")
     \/ Go(c, "expiring", "refreshing") /\ SetExpiry(c)
  /\ UNCHANGED <<peer, inbox, sent, turn, mood, view, gauge, archived>>

(* mutant: the oldest messages instead of the newest. *)
RecentContextOldest(c) ==
  SubSeq(stm[c], 1, IF Len(stm[c]) < 2 * ContextTurns THEN Len(stm[c]) ELSE 2 * ContextTurns)

(* get_recent_context *)
RecentContext(c) ==
  IF Len(stm[c]) <= 2 * ContextTurns THEN stm[c]
  ELSE SubSeq(stm[c], Len(stm[c]) - 2 * ContextTurns + 1, Len(stm[c]))

(* get_context_for_prompt; the summaries of earlier sessions are only read. *)
ContextForPrompt(c) == RecentContext(c)

RefreshContext(c) ==
  /\ Go(c, "refreshing", "generating")
  /\ context' = [context EXCEPT ![c] = ContextForPrompt(c)]
  /\ UNCHANGED <<peer, inbox, sent, turn, mood, stm, ttl, view, gauge, archived>>

(* Storing the message or refreshing the context raises. *)
TurnAborts(c) ==
  /\ \E from \in {"storing", "expiring", "refreshing"} : Leave(c, from)
  /\ UNCHANGED <<peer, inbox, sent, turn, mood, memory, view, archived>>

(* generate() returns, with or without an update of emotion and favour. *)
Generate(c) ==
  /\ Go(c, "generating", "streaming")
  /\ \E n \in {0, 1} : mood' = [mood EXCEPT ![c] = @ + n]
  /\ UNCHANGED <<peer, inbox, sent, turn, memory, view, gauge, archived>>

StreamTokens(c) ==
  /\ SendWorks(c)
  /\ Go(c, "streaming", "storingReply")
  /\ UNCHANGED <<peer, inbox, sent, turn, mood, memory, view, gauge, archived>>

StoreReply(c) ==
  /\ \/ Go(c, "storingReply", "expiringReply") /\ Push(c, "npc")
     \/ Go(c, "expiringReply", "completing") /\ SetExpiry(c)
  /\ UNCHANGED <<peer, inbox, sent, turn, mood, view, gauge, archived>>

(* A step of the inner try block raises. *)
PipelineFails(c) ==
  /\ \/ \E from \in {"generating", "storingReply", "expiringReply"} :
          Go(c, from, "failing")
     \/ \E from \in {"streaming", "completing"} :
          SendRaises(c) /\ Go(c, from, "failing")
  /\ UNCHANGED <<peer, inbox, sent, turn, mood, memory, view, gauge, archived>>

(* mutant: the fallback carries the mood the session last reported. *)
CompleteStaleFallback(c) ==
  /\ SendWorks(c)
  /\ \E from \in {"completing", "failing"} :
       /\ Go(c, from, "receiving")
       /\ view' = IF peer[c] # "open" THEN view
                  ELSE [view EXCEPT ![c].turn = turn[c],
                          ![c].mood = IF from = "failing" THEN view[c].mood ELSE mood[c]]
  /\ UNCHANGED <<peer, inbox, sent, turn, mood, memory, gauge, archived>>

(* The complete frame, of the reply or of the fallback. *)
Complete(c) ==
  /\ SendWorks(c)
  /\ \E from \in {"completing", "failing"} : Go(c, from, "receiving")
  /\ view' = IF peer[c] = "open"
             THEN [view EXCEPT ![c] = [turn |-> turn[c], mood |-> mood[c]]]
             ELSE view
  /\ UNCHANGED <<peer, inbox, sent, turn, mood, memory, gauge, archived>>

FallbackFails(c) ==
  /\ SendRaises(c)
  /\ Leave(c, "failing")
  /\ UNCHANGED <<peer, inbox, sent, turn, mood, memory, view, archived>>

-----------------------------------------------------------------------------
(* The finally block: on_session_end, then close. *)

ReadHistory(c) ==
  /\ \/ stm[c] # <<>> /\ Go(c, "reading", "summarizing")
     \/ stm[c] = <<>> /\ Go(c, "reading", "closing")
  /\ UNCHANGED <<peer, inbox, sent, turn, mood, memory, view, gauge, archived>>

(* The LLM's summary, or the first and last message when it raises. *)
Summarize(c) ==
  /\ Go(c, "summarizing", "saving")
  /\ UNCHANGED <<peer, inbox, sent, turn, mood, memory, view, gauge, archived>>

(* A session without a row is logged and skipped. *)
SaveSummary(c) ==
  /\ Go(c, "saving", "clearing")
  /\ archived' = archived \cup ({c} \cap Rows)
  /\ UNCHANGED <<peer, inbox, sent, turn, mood, memory, view, gauge>>

ClearHistory(c) ==
  /\ Go(c, "clearing", "closing")
  /\ stm' = [stm EXCEPT ![c] = <<>>]
  /\ ttl' = [ttl EXCEPT ![c] = FALSE]
  /\ UNCHANGED <<peer, inbox, sent, turn, mood, context, view, gauge, archived>>

(* mutant: a summary that cannot be saved is dropped and the history too. *)
SessionEndRaisesClearing(c) ==
  /\ \/ \E from \in {"reading", "clearing"} : Go(c, from, "closing") /\ UNCHANGED <<stm, ttl>>
     \/ /\ Go(c, "saving", "closing")
        /\ stm' = [stm EXCEPT ![c] = <<>>]
        /\ ttl' = [ttl EXCEPT ![c] = FALSE]
  /\ UNCHANGED <<peer, inbox, sent, turn, mood, context, view, gauge, archived>>

SessionEndRaises(c) ==
  /\ \E from \in {"reading", "saving", "clearing"} : Go(c, from, "closing")
  /\ UNCHANGED <<peer, inbox, sent, turn, mood, memory, view, gauge, archived>>

Close(c) ==
  /\ Go(c, "closing", "closed")
  /\ UNCHANGED <<peer, inbox, sent, turn, mood, memory, view, gauge, archived>>

-----------------------------------------------------------------------------
Handler(c) ==
  \/ Abort(c) \/ LoadContext(c) \/ StartSession(c) \/ StartFails(c)
  \/ LeaveOnReceive(c) \/ Receive(c)
  \/ StoreMessage(c) \/ RefreshContext(c) \/ TurnAborts(c)
  \/ Generate(c) \/ StreamTokens(c) \/ StoreReply(c) \/ PipelineFails(c)
  \/ Complete(c) \/ FallbackFails(c)
  \/ ReadHistory(c) \/ Summarize(c) \/ SaveSummary(c) \/ ClearHistory(c)
  \/ SessionEndRaises(c) \/ Close(c)

Environment(c) ==
  \/ \E f \in Frames : ClientSends(c, f)
  \/ ClientLeaves(c) \/ HeartbeatCloses(c) \/ Lapse(c)

Next == \E c \in Conns : Handler(c) \/ Environment(c)

Spec == Init /\ [][Next]_vars

(* The event loop resumes every handler whose await is over, and the       *)
(* services answer or raise.                                               *)
LiveSpec == Spec /\ \A c \in Conns : WF_vars(Handler(c))

-----------------------------------------------------------------------------
(* The gauge never misses a session: with the clamp at zero (metrics.py:83) *)
(* an uncounted end would swallow another connection's count for good.     *)
SessionsAreCounted ==
  gauge >= Cardinality({c \in Conns : pc[c] \in SessionSteps})

(* The prompt's history (chat.py:165, memory.py:96) ends with the message  *)
(* being answered, whatever failed or lapsed in earlier turns; it is empty *)
(* only if the key lapsed as the message was stored.                       *)
PromptEndsWithQuestion ==
  \A c \in Conns : pc[c] = "generating" /\ context[c] # <<>> =>
    Last(context[c]) = [role |-> "user", turn |-> turn[c]]

(* The stored history is a dialogue in order: turns never go back, and an  *)
(* answer follows its own question, unless that has lapsed. Turns that     *)
(* failed leave a question without an answer.                              *)
HistoryIsDialogue ==
  \A c \in Conns : \A i \in 2 .. Len(stm[c]) :
    LET before == stm[c][i - 1]  now == stm[c][i] IN
    IF now.role = "npc" THEN before = [now EXCEPT !.role = "user"]
    ELSE before.turn < now.turn

(* A client that is connected while the handler waits for it has had an    *)
(* answer to every message, and the mood and favour of its last frame are  *)
(* the engine's, fallbacks included (chat.py:198-235).                     *)
ClientIsCurrent ==
  \A c \in Conns : pc[c] = "receiving" /\ peer[c] = "open" =>
    view[c] = [turn |-> turn[c], mood |-> mood[c]]

(* A handler deletes the history of a session that has a row only after    *)
(* the summary is in it (memory.py:329-330): a session end that raises     *)
(* half-way loses nothing.                                                 *)
HistoryKeptUntilArchived ==
  [][\A c \in Rows : pc'[c] # pc[c] /\ stm[c] # <<>> /\ stm'[c] = <<>>
       => c \in archived]_vars

(* Every handler whose client is gone runs to its end. *)
HandlerEnds ==
  \A c \in Conns : peer[c] # "open" ~> pc[c] = "closed"

(* chat.py:59, "On disconnect the session is summarized and archived to    *)
(* long-term memory": the history a session's end deletes is archived.     *)
ArchivedOnDisconnect ==
  [][\A c \in Conns : pc[c] = "clearing" /\ pc'[c] = "closing" /\ stm'[c] # stm[c]
       => c \in archived']_vars
=============================================================================
