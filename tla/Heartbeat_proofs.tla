-------------------------- MODULE Heartbeat_proofs --------------------------
(***************************************************************************)
(* Proofs about the heartbeat, for every interval, timeout and length of   *)
(* the run: types, the bound on silence, and that an idle client that      *)
(* answers is kept.                                                        *)
(***************************************************************************)
EXTENDS Heartbeat, TLAPS

(* While the handler is in its loop and the socket is open the task runs,  *)
(* and its next check is in time to notice a silence before the bound.     *)
CheckIsDue ==
  /\ socket = "open" /\ handler \in {"reading", "pipeline"} => task
  /\ task => /\ now <= wake
             /\ wake - lastPong <= 2 * Interval + Timeout

(* A sign of life that was not taken into account is still to be read. *)
SignIsRead ==
  alive <= lastPong \/ \E i \in 1 .. Len(inbox) : inbox[i] \in Signs

IInv == TypeOK /\ CheckIsDue /\ SignIsRead

(* What appending to and taking from an inbox does to its frames. *)
LEMMA AppendKeepsSign ==
  ASSUME NEW s \in Seq(Frames), NEW f \in Frames,
         f \in Signs \/ \E i \in 1 .. Len(s) : s[i] \in Signs
  PROVE  \E i \in 1 .. Len(Append(s, f)) : Append(s, f)[i] \in Signs
<1>1. Append(s, f) \in Seq(Frames) /\ Len(Append(s, f)) = Len(s) + 1 /\ Len(s) \in Nat
  OBVIOUS
<1>2. CASE f \in Signs
  <2>1. Append(s, f)[Len(s) + 1] \in Signs
    BY <1>2
  <2> QED
    BY <1>1, <2>1
<1>3. CASE \E i \in 1 .. Len(s) : s[i] \in Signs
  <2>1. PICK i \in 1 .. Len(s) : s[i] \in Signs
    BY <1>3
  <2>2. Append(s, f)[i] = s[i]
    BY <2>1
  <2> QED
    BY <1>1, <2>1, <2>2
<1> QED
  BY <1>2, <1>3

LEMMA TailKeepsSign ==
  ASSUME NEW s \in Seq(Frames), s # <<>>, Head(s) \notin Signs,
         \E i \in 1 .. Len(s) : s[i] \in Signs
  PROVE  \E i \in 1 .. Len(Tail(s)) : Tail(s)[i] \in Signs
<1>1. PICK i \in 1 .. Len(s) : s[i] \in Signs
  OBVIOUS
<1>2. i # 1
  BY <1>1
<1>3. i - 1 \in 1 .. Len(Tail(s)) /\ Tail(s)[i - 1] = s[i]
  BY <1>2
<1> QED
  BY <1>1, <1>3

LEMMA InitHolds == Init => IInv
<1> SUFFICES ASSUME Init PROVE IInv
  OBVIOUS
<1>1. TypeOK
  <2>1. now \in Nat /\ wake \in Nat /\ lastPong \in 0 .. now /\ alive \in 0 .. now
    BY HeartbeatAssumption DEF Init
  <2>2. task \in BOOLEAN /\ pinged \in BOOLEAN
    BY Zenon DEF Init
  <2>3. inbox \in Seq(Frames)
    BY DEF Init
  <2> QED
    BY <2>1, <2>2, <2>3 DEF Init, TypeOK
<1>2. CheckIsDue
  BY HeartbeatAssumption DEF Init, CheckIsDue
<1>3. SignIsRead
  BY DEF Init, SignIsRead
<1> QED
  BY <1>1, <1>2, <1>3 DEF IInv

LEMMA StepHolds == IInv /\ [Next]_vars => IInv'
<1> SUFFICES ASSUME IInv, [Next]_vars PROVE IInv'
  OBVIOUS
<1> USE HeartbeatAssumption DEF IInv, TypeOK
<1>1. CASE Tick
  <2>1. TypeOK'
    BY <1>1 DEF Tick
  <2>2. CheckIsDue' /\ SignIsRead'
    BY <1>1 DEF Tick, CheckIsDue, SignIsRead
  <2> QED
    BY <2>1, <2>2
<1>2. ASSUME NEW f \in Frames, ClientSends(f) PROVE IInv'
  <2>1. TypeOK'
    BY <1>2 DEF ClientSends
  <2>2. CheckIsDue'
    BY <1>2 DEF ClientSends, CheckIsDue
  <2>3. SignIsRead'
    <3>1. CASE f \notin Signs /\ alive <= lastPong
      BY <1>2, <3>1 DEF ClientSends, SignIsRead
    <3>2. CASE f \in Signs \/ \E i \in 1 .. Len(inbox) : inbox[i] \in Signs
      BY <1>2, <3>2, AppendKeepsSign DEF ClientSends, SignIsRead
    <3> QED
      BY <3>1, <3>2 DEF SignIsRead
  <2> QED
    BY <2>1, <2>2, <2>3
<1>3. CASE ClientLeaves
  BY <1>3 DEF ClientLeaves, CheckIsDue, SignIsRead
<1>4. CASE Ping
  BY <1>4 DEF Ping, CheckIsDue, SignIsRead
<1>5. CASE PingFails
  BY <1>5 DEF PingFails, CheckIsDue, SignIsRead
<1>6. CASE CloseSilent
  BY <1>6 DEF CloseSilent, CheckIsDue, SignIsRead
<1>7. CASE Read
  <2>1. TypeOK'
    BY <1>7 DEF Read
  <2>2. CheckIsDue'
    BY <1>7 DEF Read, CheckIsDue
  <2>3. SignIsRead'
    <3>1. CASE Head(inbox) # "blank"
      BY <1>7, <3>1 DEF Read, SignIsRead
    <3>2. CASE Head(inbox) = "blank"
      BY <1>7, <3>2, TailKeepsSign DEF Read, SignIsRead, Signs
    <3> QED
      BY <3>1, <3>2
  <2> QED
    BY <2>1, <2>2, <2>3
<1>8. CASE FinishPipeline
  BY <1>8 DEF FinishPipeline, CheckIsDue, SignIsRead
<1>9. CASE LeaveOnMalformed \/ LeaveOnSocket \/ LeaveOnMessage
  <2>1. Leave
    BY <1>9 DEF LeaveOnMalformed, LeaveOnSocket, LeaveOnMessage
  <2> QED
    BY <2>1 DEF Leave, CheckIsDue, SignIsRead
<1>10. CASE EndSession
  BY <1>10 DEF EndSession, CheckIsDue, SignIsRead
<1>11. CASE UNCHANGED vars
  BY <1>11 DEF vars, CheckIsDue, SignIsRead
<1> QED
  BY <1>1, <1>2, <1>3, <1>4, <1>5, <1>6, <1>7, <1>8, <1>9, <1>10, <1>11 DEF Next

LEMMA Invariance == Spec => []IInv
<1>1. Init => IInv
  BY InitHolds
<1>2. IInv /\ [Next]_vars => IInv'
  BY StepHolds
<1> QED
  BY <1>1, <1>2, PTL DEF Spec

(* Every reachable state of the heartbeat is well typed: no sign of life   *)
(* lies in the future (chat.py:113, 144, 157).                             *)
THEOREM TypeCorrect == Spec => []TypeOK
<1>1. IInv => TypeOK
  BY DEF IInv
<1> QED
  BY <1>1, Invariance, PTL

(* The silence that was read never exceeds two intervals and the timeout   *)
(* on an open connection whose handler has not left its loop               *)
(* (chat.py:121-132, 138-235). A handler that leaves an open connection    *)
(* takes the heartbeat with it (chat.py:244-247); run HeartbeatEnding.     *)
THEOREM SilenceAlwaysBounded == Spec => []SilenceIsBounded
<1>1. IInv => SilenceIsBounded
  BY HeartbeatAssumption DEF IInv, TypeOK, CheckIsDue, SilenceIsBounded
<1> QED
  BY <1>1, Invariance, PTL

(* A connection is closed only when its client gave no sign of life for    *)
(* an interval and the timeout, or the handler had not read it             *)
(* (chat.py:127, 139-157).                                                 *)
THEOREM IdleClientAlwaysKept == Spec => IdleClientIsKept
<1> DEFINE Kept == socket' = "shut" /\ socket # "shut" /\ handler = "reading" /\ inbox = <<>>
                     => now - alive > Interval + Timeout
<1>1. IInv /\ [Next]_vars => [Kept]_vars
  <2> SUFFICES ASSUME IInv, Next, socket' = "shut", socket # "shut", handler = "reading",
                      inbox = <<>>
               PROVE  now - alive > Interval + Timeout
    BY DEF vars
  <2>1. CloseSilent
    BY DEF Next, Tick, ClientSends, ClientLeaves, Ping, PingFails, Read, FinishPipeline,
           Leave, LeaveOnMalformed, LeaveOnSocket, LeaveOnMessage, EndSession
  <2>2. alive <= lastPong
    BY DEF IInv, SignIsRead
  <2> QED
    BY <2>1, <2>2, HeartbeatAssumption DEF CloseSilent, IInv, TypeOK
<1> QED
  BY <1>1, Invariance, PTL DEF Spec, IdleClientIsKept
=============================================================================
