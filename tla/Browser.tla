------------------------------- MODULE Browser -------------------------------
(***************************************************************************)
(* The chat page in the browser: the useWebSocket hook, the App component  *)
(* that drives it (frontend/src) and the server as the page sees it. An    *)
(* action is one task of the browser's event loop (a click, a socket       *)
(* event, a timer, the answer of a fetch) with the rendering it causes.    *)
(*                                                                         *)
(* A socket that fails fires error and then close in one task, so the      *)
(* status "error" is never seen at the end of a task. Frames that the page *)
(* ignores (session_start, for which App has no handler, and ping, which   *)
(* it never answers) are left out, and so is the list of quests, but for   *)
(* the answer that breaks the page.                                        *)
(***************************************************************************)
EXTENDS Integers, Sequences, FiniteSets

CONSTANTS
  Npcs,                  \* the NPCs to select from
  Personas,              \* those the server has a persona for
  MaxReconnectAttempts,
  MaxMessages,           \* bound: messages the player writes to one NPC
  None

Frame == {"token", "complete", "error"}

(* due: messages the server has not answered yet. frames: its frames on    *)
(* their way. heard: the hook's handlers are attached.                     *)
Socket == [npc : Npcs, phase : {"connecting", "open", "closing", "closed"},
           heard : BOOLEAN, due : 0 .. MaxMessages, frames : Seq(Frame)]

ASSUME BrowserAssumption ==
  /\ Personas \subseteq Npcs
  /\ None \notin Npcs \cup Socket
  /\ MaxReconnectAttempts \in Nat \ {0}
  /\ MaxMessages \in Nat

VARIABLES
  page,        \* "shown", or "blank" when rendering has raised
  selected,    \* App: selectedNpcId
  messages,    \* App: messages
  profile,     \* App: the NPC npcProfile is about
  requests,    \* fetches without an answer yet
  overlapped,  \* history: the selection was made with a request unanswered
  status, typing,   \* the hook's state
  attempts, timer, wanted,   \* reconnectAttemptsRef, reconnectTimerRef, shouldReconnectRef
  target,      \* currentNpcIdRef
  socket,      \* wsRef
  stale        \* sockets given up that have not closed yet

app == <<page, selected, messages, profile, requests, overlapped>>
hook == <<status, typing, attempts, timer, wanted, target, socket, stale>>
vars == <<app, hook>>

Request == [what : {"quests", "profile"}, npc : Npcs]

Message == [from : {"user", "npc"}, npc : Npcs]

TypeOK ==
  /\ page \in {"shown", "blank"}
  /\ selected \in Npcs \cup {None}
  /\ messages \in Seq(Message) /\ Len(messages) <= 2 * MaxMessages
  /\ profile \in Npcs \cup {None}
  /\ requests \in SUBSET Request
  /\ overlapped \in BOOLEAN
  /\ status \in {"disconnected", "connecting", "connected"}
  /\ typing \in BOOLEAN
  /\ attempts \in 0 .. MaxReconnectAttempts
  /\ timer \in BOOLEAN
  /\ wanted \in BOOLEAN
  /\ target \in Npcs \cup {None}
  /\ socket \in Socket \cup {None}
  /\ stale \in SUBSET Socket

Init ==
  /\ page = "shown" /\ selected = None /\ messages = <<>> /\ profile = None
  /\ requests = {} /\ overlapped = FALSE
  /\ status = "disconnected" /\ typing = FALSE
  /\ attempts = 0 /\ timer = FALSE /\ wanted = FALSE /\ target = None
  /\ socket = None /\ stale = {}

-----------------------------------------------------------------------------
(* The hook. *)

(* mutant: the handlers of a socket that is given up stay attached. *)
HangUpHeard(s) == [s EXCEPT !.phase = "closing", !.due = 0, !.frames = <<>>]

(* The handlers are detached before close() is called; a socket that is no *)
(* longer open delivers no message.                                        *)
HangUp(s) == [s EXCEPT !.phase = "closing", !.heard = FALSE, !.due = 0, !.frames = <<>>]

(* The sockets that are closing once cleanup has given up the current one. *)
GivenUp ==
  IF socket = None \/ socket.phase = "closed" THEN stale ELSE stale \cup {HangUp(socket)}

Cleanup ==
  /\ timer' = FALSE
  /\ stale' = GivenUp

(* connectWs, which begins with a cleanup. *)
Connect(n) ==
  /\ Cleanup
  /\ status' = "connecting"
  /\ wanted' = TRUE
  /\ target' = n
  /\ socket' = [npc |-> n, phase |-> "connecting", heard |-> TRUE, due |-> 0, frames |-> <<>>]

(* onopen. A server without the persona accepts, says so and hangs up. *)
Opens ==
  /\ socket # None /\ socket.phase = "connecting"
  /\ socket' = [socket EXCEPT !.phase = "open",
                              !.frames = IF socket.npc \in Personas THEN <<>> ELSE <<"error">>]
  /\ status' = "connected"
  /\ attempts' = 0
  /\ UNCHANGED <<app, typing, timer, wanted, target, stale>>

(* mutant: the indicator is left on when the socket closes. *)
OnCloseStillTyping ==
  /\ status' = "disconnected"
  /\ UNCHANGED typing
  /\ IF wanted /\ attempts < MaxReconnectAttempts
       THEN attempts' = attempts + 1 /\ timer' = TRUE
       ELSE UNCHANGED <<attempts, timer>>

(* mutant: one attempt too many. *)
OnCloseOnceMore ==
  /\ status' = "disconnected"
  /\ typing' = FALSE
  /\ IF wanted /\ attempts <= MaxReconnectAttempts
       THEN attempts' = attempts + 1 /\ timer' = TRUE
       ELSE UNCHANGED <<attempts, timer>>

(* mutant: the last attempt is never made. *)
OnCloseOneShort ==
  /\ status' = "disconnected"
  /\ typing' = FALSE
  /\ IF wanted /\ attempts + 1 < MaxReconnectAttempts
       THEN attempts' = attempts + 1 /\ timer' = TRUE
       ELSE UNCHANGED <<attempts, timer>>

(* onclose: the next attempt is scheduled while there are some left. *)
OnClose ==
  /\ status' = "disconnected"
  /\ typing' = FALSE
  /\ IF wanted /\ attempts < MaxReconnectAttempts
       THEN attempts' = attempts + 1 /\ timer' = TRUE
       ELSE UNCHANGED <<attempts, timer>>

(* The current socket is gone: refused, cut off, or closed by the server.  *)
Closes ==
  /\ socket # None /\ socket.phase # "closed"
  /\ socket' = [socket EXCEPT !.phase = "closed", !.due = 0, !.frames = <<>>]
  /\ OnClose
  /\ UNCHANGED <<app, wanted, target, stale>>

(* A socket given up is gone. Whatever handlers it still has do their job. *)
StaleCloses(s) ==
  /\ s \in stale
  /\ stale' = stale \ {s}
  /\ IF s.heard THEN OnClose ELSE UNCHANGED <<status, typing, attempts, timer>>
  /\ UNCHANGED <<app, wanted, target, socket>>

(* The closing handshake of the server has begun; no close event yet. *)
StartsToClose ==
  /\ socket # None /\ socket.phase = "open"
  /\ socket' = [socket EXCEPT !.phase = "closing", !.due = 0, !.frames = <<>>]
  /\ UNCHANGED <<app, status, typing, attempts, timer, wanted, target, stale>>

(* The timer of onclose. *)
TimerFires ==
  /\ timer
  /\ target # None
  /\ Connect(target)
  /\ UNCHANGED <<app, typing, attempts>>

-----------------------------------------------------------------------------
(* App. *)

Requests(n) == [what : {"quests", "profile"}, npc : {n}]

(* mutant: the profile of the NPC before is kept until the new one arrives. *)
DefaultProfileKept(n) == IF profile = None THEN n ELSE profile

(* The profile made up from the list of NPCs. *)
DefaultProfile(n) == n

(* handleSelectNpc (disconnect, reset, connect), then the effects of the   *)
(* new selection. Bound: one request of a kind in flight per NPC.          *)
SelectNpc(n) ==
  /\ page = "shown" /\ n # selected
  /\ requests \cap Requests(n) = {}
  /\ selected' = n
  /\ messages' = <<>>
  /\ profile' = DefaultProfile(n)
  /\ attempts' = 0 /\ typing' = FALSE
  /\ Connect(n)
  /\ requests' = requests \cup Requests(n)
  /\ overlapped' = \E r \in requests : r.what = "profile"
  /\ UNCHANGED page

(* Who wrote what is on the screen. *)
By(who) == {i \in DOMAIN messages : messages[i].from = who}

Written == Cardinality(By("user"))

(* handleSendMessage: shown at once, sent only while the socket is open.   *)
(* The input is enabled by the status. *)
Submit ==
  /\ page = "shown" /\ selected # None /\ status = "connected"
  /\ Written < MaxMessages
  /\ messages' = Append(messages, [from |-> "user", npc |-> selected])
  /\ IF socket # None /\ socket.phase = "open"
       THEN socket' = [socket EXCEPT !.due = @ + 1] /\ typing' = TRUE
       ELSE UNCHANGED <<socket, typing>>
  /\ UNCHANGED <<page, selected, profile, requests, overlapped,
                 status, attempts, timer, wanted, target, stale>>

(* handleNpcResponse *)
HandleNpcResponse(n) ==
  messages' = Append(messages, [from |-> "npc", npc |-> n])

(* onmessage *)
OnMessage(frame, n) ==
  /\ typing' = (frame = "token")
  /\ IF frame = "complete" THEN HandleNpcResponse(n) ELSE UNCHANGED messages
  /\ UNCHANGED <<page, selected, profile, requests, overlapped,
                 status, attempts, timer, wanted, target>>

(* A frame arrives. A socket given up is not open and delivers none. *)
Delivery ==
  /\ socket # None /\ socket.phase = "open" /\ socket.frames # <<>>
  /\ OnMessage(Head(socket.frames), socket.npc)
  /\ socket' = [socket EXCEPT !.frames = Tail(@)]
  /\ UNCHANGED stale

(* The page cannot render a page of quests where a list of quests is       *)
(* expected: React removes the whole tree, and the hook's effect cleans up.*)
Blank ==
  /\ page' = "blank"
  /\ wanted' = FALSE
  /\ Cleanup
  /\ socket' = None
  /\ UNCHANGED <<profile, status, typing, attempts, target>>

Answered(r) ==
  /\ r \in requests
  /\ requests' = requests \ {r}
  /\ UNCHANGED <<selected, messages, overlapped>>

(* A fetch has an answer. What arrives after the page is gone is ignored.  *)
FetchSucceeds(r) ==
  /\ Answered(r)
  /\ \/ page = "blank" /\ UNCHANGED <<page, profile, hook>>
     \/ page = "shown" /\ r.what = "quests" /\ Blank
     \/ page = "shown" /\ r.what = "profile" /\ profile' = r.npc /\ UNCHANGED <<page, hook>>

FetchFails(r) == Answered(r) /\ UNCHANGED <<page, profile, hook>>

-----------------------------------------------------------------------------
(* The server: every message is answered with tokens and a complete frame, *)
(* or with a fallback that comes without tokens.                           *)
ServerReplies ==
  /\ socket # None /\ socket.phase = "open"
  /\ socket.npc \in Personas /\ socket.due > 0
  /\ \E reply \in {<<"token", "complete">>, <<"complete">>} :
       socket' = [socket EXCEPT !.due = @ - 1, !.frames = @ \o reply]
  /\ UNCHANGED <<app, status, typing, attempts, timer, wanted, target, stale>>

Next ==
  \/ \E n \in Npcs : SelectNpc(n)
  \/ Submit
  \/ Opens \/ StartsToClose \/ Closes \/ (\E s \in stale : StaleCloses(s))
  \/ TimerFires
  \/ Delivery \/ ServerReplies
  \/ \E r \in requests : FetchSucceeds(r) \/ FetchFails(r)

Spec == Init /\ [][Next]_vars

HandshakeEnds == socket # None /\ socket.phase \in {"connecting", "closing"} /\ (Opens \/ Closes)

(* Timers fire, and a handshake, to open or to close, ends somehow. *)
LiveSpec == Spec /\ WF_vars(TimerFires) /\ WF_vars(HandshakeEnds)

-----------------------------------------------------------------------------
(* The status on the screen tells the truth about the one socket that is   *)
(* left, which is the selected NPC's (useWebSocket.ts:47-138): a socket    *)
(* given up is silenced, whatever its events do later, no attempt to       *)
(* reconnect is pending beside a socket, and a page that is gone leaves    *)
(* neither a socket nor a timer behind (useWebSocket.ts:155-160).          *)
StatusTellsTruth ==
  /\ \A s \in stale : ~s.heard
  /\ page = "blank" => socket = None /\ ~timer
  /\ page = "shown" =>
       /\ selected # None <=> socket # None
       /\ socket # None =>
            /\ socket.npc = selected /\ socket.heard
            /\ status = "connecting" <=> socket.phase = "connecting"
            /\ status = "connected" <=> socket.phase \in {"open", "closing"}
            /\ timer => socket.phase = "closed" /\ target = selected

(* The typing indicator is a promise: while it is shown on an open socket, *)
(* the server owes an answer or the answer is on its way, through          *)
(* overlapping messages, failures and reconnections (useWebSocket.ts:      *)
(* 94-109, 120-122, 148-153).                                              *)
TypingMeansAnswerDue ==
  page = "shown" /\ typing =>
    /\ socket # None /\ socket.phase \in {"open", "closing"}
    /\ socket.phase = "open" => socket.due > 0 \/ \E i \in DOMAIN socket.frames : socket.frames[i] = "complete"

(* What is on the screen is about the selected NPC (App.tsx:122-149): all  *)
(* answers are its own and none comes before its question, and so is the   *)
(* profile of a player who waits for one profile before asking for the     *)
(* next. One who does not may get the earlier NPC's late (App.tsx:199-212).*)
ScreenShowsSelected ==
  /\ \A i \in DOMAIN messages : messages[i].npc = selected
  /\ \A i \in DOMAIN messages : 2 * Cardinality(By("npc") \cap 1 .. i) <= i
  /\ ~overlapped => profile = selected

(* A connection that is lost is tried again until it is there or the       *)
(* attempts are used up (useWebSocket.ts:120-133), unless the player turns *)
(* to another NPC or the page breaks.                                      *)
ReconnectsOrGivesUp ==
  \A n \in Npcs :
    selected = n /\ wanted /\ status = "disconnected"
      ~> \/ status = "connected" \/ selected # n \/ page = "blank"
         \/ attempts = MaxReconnectAttempts /\ ~timer /\ status = "disconnected"
=============================================================================
