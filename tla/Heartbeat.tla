------------------------------ MODULE Heartbeat ------------------------------
(***************************************************************************)
(* The heartbeat of one chat session (src/api/routes/chat.py): the task    *)
(* that pings the client and closes a silent connection, beside the        *)
(* handler that reads the client's frames one at a time and is away from   *)
(* the socket while the dialogue pipeline answers a message.               *)
(*                                                                         *)
(* Time is counted in ticks. The event loop is prompt: time does not pass  *)
(* while the heartbeat is due or a frame waits for an idle handler.        *)
(***************************************************************************)
EXTENDS Integers, Sequences

CONSTANTS
  Interval,   \* _HEARTBEAT_INTERVAL
  Timeout,    \* _HEARTBEAT_TIMEOUT
  MaxTime,    \* bound: ticks
  MaxInbox    \* bound: frames waiting at the server

ASSUME HeartbeatAssumption ==
  /\ Interval \in Nat \ {0} /\ Timeout \in Nat
  /\ MaxTime \in Nat /\ MaxInbox \in Nat

VARIABLES
  now,        \* time.monotonic()
  wake,       \* when the heartbeat's sleep is over
  task,       \* whether the heartbeat task still runs
  lastPong,   \* last_pong
  handler,    \* reading frames, in the pipeline, in its finally block, or over
  socket,     \* open, left by the client, or shut by the server
  inbox,      \* frames that arrived and were not read
  pinged,     \* the client has a ping to answer
  alive       \* when the client last sent a sign of life

vars == <<now, wake, task, lastPong, handler, socket, inbox, pinged, alive>>

(* A malformed frame is no JSON object, or its message no text. *)
Frames == {"pong", "text", "blank", "malformed"}

(* Frames the heartbeat takes for a sign of life once they are read. *)
Signs == {"pong", "text"}

TypeOK ==
  /\ now \in Nat /\ wake \in Nat
  /\ lastPong \in 0 .. now /\ alive \in 0 .. now
  /\ task \in BOOLEAN /\ pinged \in BOOLEAN
  /\ handler \in {"reading", "pipeline", "ending", "over"}
  /\ socket \in {"open", "left", "shut"}
  /\ inbox \in Seq(Frames)

(* session_start has been sent and the task is created. *)
Init ==
  /\ now = 0 /\ wake = Interval
  /\ task = TRUE
  /\ lastPong = 0
  /\ handler = "reading"
  /\ socket = "open"
  /\ inbox = <<>>
  /\ pinged = FALSE
  /\ alive = 0

-----------------------------------------------------------------------------
(* The client and the clock. *)

Tick ==
  /\ now < MaxTime
  /\ task => now < wake
  /\ handler = "reading" => inbox = <<>> /\ socket = "open"
  /\ now' = now + 1
  /\ UNCHANGED <<wake, task, lastPong, handler, socket, inbox, pinged, alive>>

(* A blank message is answered with an error. *)
ClientSends(f) ==
  /\ socket = "open" /\ Len(inbox) < MaxInbox
  /\ f = "pong" => pinged
  /\ inbox' = Append(inbox, f)
  /\ pinged' = (pinged /\ f # "pong")
  /\ alive' = IF f \in Signs THEN now ELSE alive
  /\ UNCHANGED <<now, wake, task, lastPong, handler, socket>>

ClientLeaves ==
  /\ socket = "open"
  /\ socket' = "left"
  /\ UNCHANGED <<now, wake, task, lastPong, handler, inbox, pinged, alive>>

-----------------------------------------------------------------------------
(* The heartbeat task. *)

(* mutant: a connection a ping could be sent on is not looked at further. *)
PingUnchecked ==
  /\ task /\ now = wake
  /\ wake' = now + Interval
  /\ pinged' = (pinged \/ socket = "open")
  /\ UNCHANGED <<now, task, lastPong, handler, socket, inbox, alive>>

Ping ==
  /\ task /\ now = wake
  /\ now - lastPong <= Interval + Timeout
  /\ wake' = now + Interval
  /\ pinged' = (pinged \/ socket = "open")
  /\ UNCHANGED <<now, task, lastPong, handler, socket, inbox, alive>>

PingFails ==
  /\ task /\ now = wake
  /\ socket = "left"
  /\ task' = FALSE
  /\ UNCHANGED <<now, wake, lastPong, handler, socket, inbox, pinged, alive>>

CloseSilent ==
  /\ task /\ now = wake
  /\ now - lastPong > Interval + Timeout
  /\ socket' = "shut"
  /\ task' = FALSE
  /\ UNCHANGED <<now, wake, lastPong, handler, inbox, pinged, alive>>

-----------------------------------------------------------------------------
(* The handler. *)

(* mutant: only messages reset the timer. *)
ReadIgnoringPong ==
  /\ handler = "reading" /\ inbox # <<>> /\ Head(inbox) # "malformed"
  /\ inbox' = Tail(inbox)
  /\ lastPong' = IF Head(inbox) = "text" THEN now ELSE lastPong
  /\ handler' = IF Head(inbox) = "text" THEN "pipeline" ELSE "reading"
  /\ UNCHANGED <<now, wake, task, socket, pinged, alive>>

(* mutant: the deadline is stored in place of the time of the frame. *)
ReadStoringDeadline ==
  /\ handler = "reading" /\ inbox # <<>> /\ Head(inbox) # "malformed"
  /\ inbox' = Tail(inbox)
  /\ lastPong' = IF Head(inbox) = "blank" THEN lastPong ELSE now + Timeout
  /\ handler' = IF Head(inbox) = "text" THEN "pipeline" ELSE "reading"
  /\ UNCHANGED <<now, wake, task, socket, pinged, alive>>

Read ==
  /\ handler = "reading" /\ inbox # <<>> /\ Head(inbox) # "malformed"
  /\ inbox' = Tail(inbox)
  /\ lastPong' = IF Head(inbox) = "blank" THEN lastPong ELSE now
  /\ handler' = IF Head(inbox) = "text" THEN "pipeline" ELSE "reading"
  /\ UNCHANGED <<now, wake, task, socket, pinged, alive>>

(* The complete frame is sent, which a client that left may not notice. *)
FinishPipeline ==
  /\ handler = "pipeline" /\ socket # "shut"
  /\ handler' = "reading"
  /\ UNCHANGED <<now, wake, task, lastPong, socket, inbox, pinged, alive>>

(* The handler raises out of its loop, and finally cancels the heartbeat   *)
(* before it awaits the end of the session.                                *)
Leave ==
  /\ handler' = "ending"
  /\ task' = FALSE
  /\ UNCHANGED <<now, wake, lastPong, socket, inbox, pinged, alive>>

(* A frame that is no message of the protocol raises when it is parsed. *)
LeaveOnMalformed ==
  /\ handler = "reading" /\ inbox # <<>> /\ Head(inbox) = "malformed"
  /\ Leave

(* Receiving raises on a socket that is gone, as does the answer to a blank *)
(* message.                                                                 *)
LeaveOnSocket ==
  /\ handler = "reading" /\ socket # "open"
  /\ \/ socket = "shut" \/ inbox = <<>>
     \/ inbox # <<>> /\ Head(inbox) = "blank"
  /\ Leave

(* Storing the message or reading its context raises, whatever the socket; *)
(* or the pipeline does and the fallback cannot be sent.                   *)
LeaveOnMessage ==
  /\ handler = "pipeline"
  /\ Leave

(* The session is summarized, by an LLM and in any time, or that fails. The *)
(* endpoint returns and the server closes what is still open.               *)
EndSession ==
  /\ handler = "ending"
  /\ handler' = "over"
  /\ socket' = IF socket = "open" THEN "shut" ELSE socket
  /\ UNCHANGED <<now, wake, task, lastPong, inbox, pinged, alive>>

Next ==
  \/ Tick
  \/ \E f \in Frames : ClientSends(f)
  \/ ClientLeaves
  \/ Ping \/ PingFails \/ CloseSilent
  \/ Read \/ FinishPipeline
  \/ LeaveOnMalformed \/ LeaveOnSocket \/ LeaveOnMessage
  \/ EndSession

Spec == Init /\ [][Next]_vars

-----------------------------------------------------------------------------
(* As long as the handler is in its loop, no connection stays open on      *)
(* which no sign of life was read for longer than two intervals and the    *)
(* timeout: the check runs only at the pings, so a check that just missed  *)
(* the limit waits for the next one (chat.py:116-132). A handler that has  *)
(* left its loop has cancelled the check (chat.py:246-247).                *)
SilenceIsBounded ==
  socket = "open" /\ handler \in {"reading", "pipeline"}
    => now - lastPong <= 2 * Interval + Timeout

(* The heartbeat closes no connection whose client has given a sign of     *)
(* life within an interval and the timeout, as long as the handler is at   *)
(* the socket and has read what came.                                      *)
IdleClientIsKept ==
  [][socket' = "shut" /\ socket # "shut" /\ handler = "reading" /\ inbox = <<>>
       => now - alive > Interval + Timeout]_vars
=============================================================================
