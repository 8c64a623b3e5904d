------------------------- MODULE ChatSession_proofs -------------------------
(***************************************************************************)
(* Proofs about the chat handlers, for any connections, any length of the  *)
(* conversation and of the prompt's history: types, the gauge, what the    *)
(* client was told, and what the stored history and the prompt contain.    *)
(***************************************************************************)
EXTENDS ChatSession, FiniteSetTheorems, TLAPS

Active(steps) == {c \in Conns : steps[c] \in SessionSteps}

LEMMA ActiveFinite ==
  ASSUME NEW steps
  PROVE  IsFiniteSet(Active(steps)) /\ Cardinality(Active(steps)) \in Nat
<1>1. Active(steps) \subseteq Conns
  BY DEF Active
<1> QED
  BY <1>1, ChatAssumption, FS_Subset, FS_CardinalityType

LEMMA StepTypes ==
  ASSUME NEW c \in Conns, NEW from, NEW to \in Steps,
         pc \in [Conns -> Steps], Go(c, from, to)
  PROVE  /\ pc' \in [Conns -> Steps]
         /\ pc[c] = from /\ pc'[c] = to
         /\ \A d \in Conns \ {c} : pc'[d] = pc[d]
BY DEF Go

(* A step inside or outside of the session leaves the active connections. *)
LEMMA ActiveSame ==
  ASSUME NEW c \in Conns, NEW from, NEW to,
         pc \in [Conns -> Steps], Go(c, from, to),
         from \in SessionSteps <=> to \in SessionSteps
  PROVE  Active(pc') = Active(pc)
BY DEF Go, Active

LEMMA ActiveJoins ==
  ASSUME NEW c \in Conns, pc \in [Conns -> Steps], Go(c, "accepted", "starting")
  PROVE  Cardinality(Active(pc')) = Cardinality(Active(pc)) + 1
<1>1. Active(pc') = Active(pc) \cup {c} /\ c \notin Active(pc)
  BY DEF Go, Active, SessionSteps
<1> QED
  BY <1>1, ActiveFinite, FS_AddElement

LEMMA ActiveParts ==
  ASSUME NEW c \in Conns, NEW from \in SessionSteps, NEW to \in Steps \ SessionSteps,
         pc \in [Conns -> Steps], Go(c, from, to)
  PROVE  Cardinality(Active(pc')) = Cardinality(Active(pc)) - 1
<1>1. Active(pc') = Active(pc) \ {c} /\ c \in Active(pc)
  BY DEF Go, Active
<1> QED
  BY <1>1, ActiveFinite, FS_RemoveElement

-----------------------------------------------------------------------------
(* Types. *)

LEMMA RecentContextType ==
  ASSUME NEW c \in Conns, stm \in [Conns -> Seq(Message)]
  PROVE  RecentContext(c) \in Seq(Message)
BY ChatAssumption DEF RecentContext

LEMMA PushType ==
  ASSUME NEW c \in Conns, NEW role \in {"user", "npc"}, Push(c, role),
         stm \in [Conns -> Seq(Message)], turn \in [Conns -> Nat]
  PROVE  stm' \in [Conns -> Seq(Message)]
<1> DEFINE m == [role |-> role, turn |-> turn[c]]
<1>1. m \in Message
  BY DEF Message
<1> HIDE DEF m
<1>2. Append(stm[c], m) \in Seq(Message)
  BY <1>1
<1>3. stm' = [stm EXCEPT ![c] = Append(stm[c], m)]
  BY DEF Push, m
<1> QED
  BY <1>2, <1>3

LEMMA TypeInit == Init => TypeOK
BY DEF Init, TypeOK, Steps

LEMMA TypeEnvironment ==
  ASSUME TypeOK, NEW c \in Conns, Environment(c)
  PROVE  TypeOK'
<1> USE DEF TypeOK, memory
<1>1. ASSUME NEW f \in Frames, ClientSends(c, f) PROVE TypeOK'
  BY <1>1 DEF ClientSends
<1>2. CASE ClientLeaves(c)
  BY <1>2 DEF ClientLeaves
<1>3. CASE HeartbeatCloses(c)
  BY <1>3 DEF HeartbeatCloses
<1>4. CASE Lapse(c)
  BY <1>4 DEF Lapse
<1> QED
  BY <1>1, <1>2, <1>3, <1>4 DEF Environment

LEMMA TypeHandler ==
  ASSUME TypeOK, NEW c \in Conns, Handler(c)
  PROVE  TypeOK'
<1> USE DEF TypeOK, memory, Go, IncGauge, DecGauge, Leave, Steps, SessionSteps, FinalSteps
<1>1. CASE Abort(c)
  BY <1>1 DEF Abort
<1>2. CASE LoadContext(c)
  BY <1>2 DEF LoadContext
<1>3. CASE StartSession(c)
  BY <1>3 DEF StartSession
<1>4. CASE StartFails(c)
  BY <1>4 DEF StartFails
<1>5. CASE LeaveOnReceive(c)
  BY <1>5 DEF LeaveOnReceive
<1>6. CASE Receive(c)
  <2>1. inbox' \in [Conns -> Seq(Frames)]
    BY <1>6 DEF Receive
  <2>2. pc' \in [Conns -> Steps]
    BY <1>6 DEF Receive
  <2>3. turn' \in [Conns -> Nat] /\ gauge' \in Nat
    BY <1>6 DEF Receive
  <2> QED
    BY <1>6, <2>1, <2>2, <2>3 DEF Receive
<1>7. CASE StoreMessage(c)
  <2>1. pc' \in [Conns -> Steps] /\ ttl' \in [Conns -> BOOLEAN]
    BY <1>7 DEF StoreMessage, Push, SetExpiry
  <2>2. stm' \in [Conns -> Seq(Message)]
    BY <1>7, PushType DEF StoreMessage, SetExpiry
  <2> QED
    BY <1>7, <2>1, <2>2 DEF StoreMessage, Push, SetExpiry
<1>8. CASE RefreshContext(c)
  BY <1>8, RecentContextType DEF RefreshContext, ContextForPrompt
<1>9. CASE TurnAborts(c)
  BY <1>9 DEF TurnAborts
<1>10. CASE Generate(c)
  BY <1>10 DEF Generate
<1>11. CASE StreamTokens(c)
  BY <1>11 DEF StreamTokens
<1>12. CASE StoreReply(c)
  <2>1. pc' \in [Conns -> Steps] /\ ttl' \in [Conns -> BOOLEAN]
    BY <1>12 DEF StoreReply, Push, SetExpiry
  <2>2. stm' \in [Conns -> Seq(Message)]
    BY <1>12, PushType DEF StoreReply, SetExpiry
  <2> QED
    BY <1>12, <2>1, <2>2 DEF StoreReply, Push, SetExpiry
<1>13. CASE PipelineFails(c)
  BY <1>13 DEF PipelineFails
<1>14. CASE Complete(c)
  BY <1>14 DEF Complete
<1>15. CASE FallbackFails(c)
  BY <1>15 DEF FallbackFails
<1>16. CASE ReadHistory(c)
  BY <1>16 DEF ReadHistory
<1>17. CASE Summarize(c)
  BY <1>17 DEF Summarize
<1>18. CASE SaveSummary(c)
  BY <1>18 DEF SaveSummary
<1>19. CASE ClearHistory(c)
  BY <1>19 DEF ClearHistory
<1>20. CASE SessionEndRaises(c)
  BY <1>20 DEF SessionEndRaises
<1>21. CASE Close(c)
  BY <1>21 DEF Close
<1> QED
  BY <1>1, <1>2, <1>3, <1>4, <1>5, <1>6, <1>7, <1>8, <1>9, <1>10, <1>11, <1>12, <1>13,
     <1>14, <1>15, <1>16, <1>17, <1>18, <1>19, <1>20, <1>21 DEF Handler

-----------------------------------------------------------------------------
(* The gauge. *)

(* What a step of c does to the active connections and the gauge: nothing, *)
(* or it counts c in, or c leaves counted out, or (session_start failed)   *)
(* c leaves and stays counted.                                             *)
Unmoved == Active(pc') = Active(pc) /\ gauge' = gauge
CountedIn(c) == Go(c, "accepted", "starting") /\ gauge' = gauge + 1
CountedOut(c) == \E from \in SessionSteps : Leave(c, from)
LeftCounted(c) == Go(c, "starting", "closed") /\ gauge' = gauge

LEMMA GaugeStep ==
  ASSUME TypeOK, NEW c \in Conns, Handler(c) \/ Environment(c)
  PROVE  Unmoved \/ CountedIn(c) \/ CountedOut(c) \/ LeftCounted(c)
<1> USE DEF TypeOK, Unmoved
<1>1. CASE Environment(c)
  BY <1>1 DEF Environment, ClientSends, ClientLeaves, HeartbeatCloses, Lapse
<1>2. CASE Abort(c) \/ Close(c) \/ ReadHistory(c) \/ Summarize(c) \/ SessionEndRaises(c)
  BY <1>2, ActiveSame DEF Abort, Close, ReadHistory, Summarize, SessionEndRaises, SessionSteps
<1>3. CASE SaveSummary(c) \/ ClearHistory(c)
  BY <1>3, ActiveSame DEF SaveSummary, ClearHistory, SessionSteps
<1>4. CASE StartSession(c) \/ Generate(c) \/ StreamTokens(c) \/ Complete(c) \/ PipelineFails(c)
  BY <1>4, ActiveSame DEF StartSession, Generate, StreamTokens, Complete, PipelineFails, SessionSteps
<1>5. CASE StoreMessage(c) \/ StoreReply(c) \/ RefreshContext(c)
  BY <1>5, ActiveSame DEF StoreMessage, StoreReply, RefreshContext, SessionSteps
<1>6. CASE Receive(c)
  BY <1>6, ActiveSame DEF Receive, CountedOut, SessionSteps
<1>7. CASE LeaveOnReceive(c) \/ TurnAborts(c) \/ FallbackFails(c)
  BY <1>7 DEF LeaveOnReceive, TurnAborts, FallbackFails, CountedOut, SessionSteps
<1>8. CASE LoadContext(c)
  BY <1>8 DEF LoadContext, IncGauge, CountedIn
<1>9. CASE StartFails(c)
  BY <1>9 DEF StartFails, LeftCounted
<1> QED
  BY <1>1, <1>2, <1>3, <1>4, <1>5, <1>6, <1>7, <1>8, <1>9 DEF Handler

LEMMA CountedStep ==
  ASSUME TypeOK, SessionsAreCounted, NEW c \in Conns, Handler(c) \/ Environment(c)
  PROVE  SessionsAreCounted'
<1> DEFINE n == Cardinality(Active(pc))
<1> DEFINE m == Cardinality(Active(pc'))
<1>1. n \in Nat /\ m \in Nat /\ gauge \in Nat /\ gauge >= n
  BY ActiveFinite DEF TypeOK, SessionsAreCounted, Active
<1>2. CASE Unmoved
  BY <1>1, <1>2 DEF Unmoved, SessionsAreCounted, Active
<1>3. CASE CountedIn(c)
  <2>1. m = n + 1 /\ gauge' = gauge + 1
    BY <1>3, ActiveJoins DEF CountedIn, TypeOK
  <2> QED
    BY <1>1, <2>1 DEF SessionsAreCounted, Active
<1>4. CASE CountedOut(c)
  <2>1. PICK from \in SessionSteps : Leave(c, from)
    BY <1>4 DEF CountedOut
  <2>2. m = n - 1
    BY <2>1, ActiveParts DEF Leave, TypeOK, Steps, SessionSteps, FinalSteps
  <2>3. gauge' = IF gauge = 0 THEN 0 ELSE gauge - 1
    BY <2>1 DEF Leave, DecGauge
  <2> QED
    BY <1>1, <2>2, <2>3 DEF SessionsAreCounted, Active
<1>5. CASE LeftCounted(c)
  <2>1. m = n - 1 /\ gauge' = gauge
    BY <1>5, ActiveParts DEF LeftCounted, TypeOK, Steps, SessionSteps
  <2> QED
    BY <1>1, <2>1 DEF SessionsAreCounted, Active
<1> QED
  BY GaugeStep, <1>2, <1>3, <1>4, <1>5

-----------------------------------------------------------------------------
(* What one connection was told, and its history. *)

Question(d) == [role |-> "user", turn |-> turn[d]]

(* The client of d knows the turn and mood the handler waits with. *)
Told(d) ==
  pc[d] \in {"accepted", "starting", "receiving"} /\ peer[d] = "open" =>
    view[d] = [turn |-> turn[d], mood |-> mood[d]]

(* From its RPUSH to the reply's, the question is last in the history ...  *)
Asked(d) ==
  /\ pc[d] \in {"expiring", "refreshing", "generating", "streaming", "storingReply"}
  /\ stm[d] # <<>>
  => Last(stm[d]) = Question(d)

(* ... and in the prompt made of it. *)
Prompted(d) ==
  pc[d] = "generating" /\ context[d] # <<>> => Last(context[d]) = Question(d)

(* Before its RPUSH everything in the history is of earlier turns. *)
Past(d) ==
  \A i \in 1 .. Len(stm[d]) :
    /\ stm[d][i].turn <= turn[d]
    /\ pc[d] = "storing" => stm[d][i].turn < turn[d]

InOrder(d) ==
  \A i \in 2 .. Len(stm[d]) :
    LET before == stm[d][i - 1]  now == stm[d][i] IN
    IF now.role = "npc" THEN before = [now EXCEPT !.role = "user"]
    ELSE before.turn < now.turn

Story(d) == Told(d) /\ Asked(d) /\ Prompted(d) /\ Past(d) /\ InOrder(d)

Sound == \A d \in Conns : Story(d)

(* A step of c leaves every other connection as it was. *)
LEMMA OthersUntouched ==
  ASSUME TypeOK, NEW c \in Conns, Handler(c) \/ Environment(c), NEW d \in Conns \ {c}
  PROVE  /\ pc'[d] = pc[d] /\ peer'[d] = peer[d] /\ turn'[d] = turn[d]
         /\ mood'[d] = mood[d] /\ stm'[d] = stm[d] /\ context'[d] = context[d]
         /\ view'[d] = view[d]
<1> USE DEF TypeOK, memory, Go, IncGauge, DecGauge, Leave
<1>1. CASE Environment(c)
  BY <1>1 DEF Environment, ClientSends, ClientLeaves, HeartbeatCloses, Lapse
<1>2. CASE Abort(c) \/ LoadContext(c) \/ StartSession(c) \/ StartFails(c)
  BY <1>2 DEF Abort, LoadContext, StartSession, StartFails
<1>3. CASE LeaveOnReceive(c) \/ Receive(c)
  BY <1>3 DEF LeaveOnReceive, Receive
<1>4. CASE StoreMessage(c) \/ RefreshContext(c) \/ TurnAborts(c) \/ StoreReply(c)
  BY <1>4 DEF StoreMessage, RefreshContext, TurnAborts, StoreReply, Push, SetExpiry
<1>5. CASE Generate(c) \/ StreamTokens(c) \/ PipelineFails(c) \/ Complete(c) \/ FallbackFails(c)
  BY <1>5 DEF Generate, StreamTokens, PipelineFails, Complete, FallbackFails
<1>6. CASE ReadHistory(c) \/ Summarize(c) \/ SaveSummary(c) \/ ClearHistory(c)
             \/ SessionEndRaises(c) \/ Close(c)
  BY <1>6 DEF ReadHistory, Summarize, SaveSummary, ClearHistory, SessionEndRaises, Close
<1> QED
  BY <1>1, <1>2, <1>3, <1>4, <1>5, <1>6 DEF Handler

LEMMA ToldStep ==
  ASSUME TypeOK, NEW c \in Conns, Told(c), Handler(c) \/ Environment(c)
  PROVE  Told(c)'
<1> USE DEF TypeOK, memory, Go, IncGauge, DecGauge, Leave, Told
<1>1. CASE Environment(c)
  BY <1>1 DEF Environment, ClientSends, ClientLeaves, HeartbeatCloses, Lapse
<1>2. CASE Abort(c) \/ LoadContext(c) \/ StartSession(c) \/ StartFails(c)
  BY <1>2 DEF Abort, LoadContext, StartSession, StartFails
<1>3. CASE LeaveOnReceive(c) \/ Receive(c)
  BY <1>3 DEF LeaveOnReceive, Receive
<1>4. CASE StoreMessage(c) \/ RefreshContext(c) \/ TurnAborts(c) \/ StoreReply(c)
  BY <1>4 DEF StoreMessage, RefreshContext, TurnAborts, StoreReply
<1>5. CASE Generate(c) \/ StreamTokens(c) \/ PipelineFails(c) \/ FallbackFails(c)
  BY <1>5 DEF Generate, StreamTokens, PipelineFails, FallbackFails
<1>6. CASE Complete(c)
  BY <1>6 DEF Complete
<1>7. CASE ReadHistory(c) \/ Summarize(c) \/ SaveSummary(c) \/ ClearHistory(c)
             \/ SessionEndRaises(c) \/ Close(c)
  BY <1>7 DEF ReadHistory, Summarize, SaveSummary, ClearHistory, SessionEndRaises, Close
<1> QED
  BY <1>1, <1>2, <1>3, <1>4, <1>5, <1>6, <1>7 DEF Handler

LEMMA PushLast ==
  ASSUME NEW c \in Conns, NEW role \in {"user", "npc"}, Push(c, role), TypeOK
  PROVE  LET m == [role |-> role, turn |-> turn[c]] IN
         /\ stm[c] \in Seq(Message) /\ m \in Message
         /\ stm'[c] = Append(stm[c], m)
         /\ Len(stm'[c]) = Len(stm[c]) + 1
         /\ stm'[c][Len(stm[c]) + 1] = m
         /\ \A i \in 1 .. Len(stm[c]) : stm'[c][i] = stm[c][i]
<1> DEFINE m == [role |-> role, turn |-> turn[c]]
<1>1. m \in Message /\ stm[c] \in Seq(Message)
  BY DEF Message, TypeOK
<1>2. stm'[c] = Append(stm[c], m)
  BY DEF Push, TypeOK
<1> HIDE DEF m
<1>3. /\ Len(stm'[c]) = Len(stm[c]) + 1
      /\ stm'[c][Len(stm[c]) + 1] = m
      /\ \A i \in 1 .. Len(stm[c]) : stm'[c][i] = stm[c][i]
  BY <1>1, <1>2
<1> QED
  BY <1>1, <1>2, <1>3 DEF m

LEMMA RecentContextLast ==
  ASSUME TypeOK, NEW c \in Conns
  PROVE  /\ RecentContext(c) # <<>> => stm[c] # <<>>
         /\ RecentContext(c) # <<>> => Last(RecentContext(c)) = Last(stm[c])
<1> DEFINE s == stm[c]
<1> DEFINE k == 2 * ContextTurns
<1>1. s \in Seq(Message) /\ Len(s) \in Nat /\ k \in Nat /\ k > 0
  BY ChatAssumption DEF TypeOK
<1>2. CASE Len(s) <= k
  BY <1>1, <1>2 DEF RecentContext
<1>3. CASE Len(s) > k
  <2>1. RecentContext(c) = SubSeq(s, Len(s) - k + 1, Len(s))
    BY <1>1, <1>3 DEF RecentContext
  <2> HIDE DEF k
  <2>2. Len(SubSeq(s, Len(s) - k + 1, Len(s))) = k
    BY <1>1, <1>3
  <2>3. SubSeq(s, Len(s) - k + 1, Len(s))[k] = s[Len(s)]
    BY <1>1, <1>3
  <2>4. s # <<>>
    BY <1>1, <1>3
  <2> QED
    BY <2>1, <2>2, <2>3, <2>4 DEF Last
<1> QED
  BY <1>1, <1>2, <1>3

-----------------------------------------------------------------------------
(* What a step of c does to its history and prompt: a message is taken up, *)
(* a question or an answer is pushed, the prompt is built, or the history  *)
(* stays or is emptied and no step of the turn is entered from outside.    *)
AskedSteps == {"expiring", "refreshing", "generating", "streaming", "storingReply"}
TakenUp(c) ==
  /\ Go(c, "receiving", "storing") /\ turn'[c] = turn[c] + 1
  /\ stm'[c] = stm[c] /\ context'[c] = context[c]
PushedBy(c, from, to, role) ==
  Go(c, from, to) /\ Push(c, role) /\ turn' = turn
Quiet(c) ==
  /\ turn'[c] = turn[c] /\ context'[c] = context[c] /\ stm'[c] \in {stm[c], <<>>}
  /\ pc'[c] \in AskedSteps => pc[c] \in AskedSteps
  /\ pc'[c] \in {"generating", "storing"} => pc'[c] = pc[c]

LEMMA HistoryStep ==
  ASSUME TypeOK, NEW c \in Conns, Handler(c) \/ Environment(c)
  PROVE  \/ Quiet(c) \/ TakenUp(c) \/ RefreshContext(c)
         \/ PushedBy(c, "storing", "expiring", "user")
         \/ PushedBy(c, "storingReply", "expiringReply", "npc")
<1> USE DEF TypeOK, memory, Go, IncGauge, DecGauge, Leave, Quiet, AskedSteps
<1>1. CASE Environment(c)
  BY <1>1 DEF Environment, ClientSends, ClientLeaves, HeartbeatCloses, Lapse
<1>2. CASE Abort(c) \/ LoadContext(c) \/ StartSession(c) \/ StartFails(c)
  BY <1>2 DEF Abort, LoadContext, StartSession, StartFails
<1>3. CASE LeaveOnReceive(c) \/ Receive(c)
  BY <1>3 DEF LeaveOnReceive, Receive, TakenUp
<1>4. CASE StoreMessage(c) \/ StoreReply(c)
  BY <1>4 DEF StoreMessage, StoreReply, SetExpiry, PushedBy
<1>5. CASE TurnAborts(c) \/ FallbackFails(c)
  BY <1>5 DEF TurnAborts, FallbackFails
<1>6. CASE Generate(c) \/ StreamTokens(c) \/ PipelineFails(c) \/ Complete(c)
  BY <1>6 DEF Generate, StreamTokens, PipelineFails, Complete
<1>7. CASE ReadHistory(c) \/ Summarize(c) \/ SaveSummary(c) \/ ClearHistory(c)
             \/ SessionEndRaises(c) \/ Close(c)
  BY <1>7 DEF ReadHistory, Summarize, SaveSummary, ClearHistory, SessionEndRaises, Close
<1> QED
  BY <1>1, <1>2, <1>3, <1>4, <1>5, <1>6, <1>7 DEF Handler

LEMMA StoryStep ==
  ASSUME TypeOK, NEW c \in Conns, Story(c), Handler(c) \/ Environment(c)
  PROVE  Story(c)'
<1>t. Told(c)'
  BY ToldStep DEF Story
<1>s. stm[c] \in Seq(Message) /\ Len(stm[c]) \in Nat /\ turn[c] \in Nat
  BY DEF TypeOK
<1>1. CASE Quiet(c)
  <2>1. Asked(c)' /\ Prompted(c)'
    BY <1>1 DEF Quiet, AskedSteps, Story, Asked, Prompted, Question
  <2>2. Past(c)' /\ InOrder(c)'
    <3>1. CASE stm'[c] = stm[c]
      BY <1>1, <3>1 DEF Quiet, Story, Past, InOrder
    <3>2. CASE stm'[c] = <<>>
      BY <3>2 DEF Past, InOrder
    <3> QED
      BY <1>1, <3>1, <3>2 DEF Quiet
  <2> QED
    BY <1>t, <2>1, <2>2 DEF Story
<1>2. CASE TakenUp(c)
  <2>1. pc'[c] = "storing" /\ turn'[c] = turn[c] + 1 /\ stm'[c] = stm[c]
    BY <1>2 DEF TakenUp, Go, TypeOK
  <2>2. Asked(c)' /\ Prompted(c)' /\ InOrder(c)'
    BY <2>1 DEF Story, Asked, Prompted, InOrder
  <2>3. Past(c)'
    <3>1. \A i \in 1 .. Len(stm[c]) : stm[c][i] \in Message /\ stm[c][i].turn <= turn[c]
      BY <1>s DEF Story, Past
    <3> QED
      BY <1>s, <2>1, <3>1 DEF Past, Message
  <2> QED
    BY <1>t, <2>2, <2>3 DEF Story
<1>3. CASE RefreshContext(c)
  <2>1. /\ pc'[c] = "generating" /\ pc[c] = "refreshing" /\ turn' = turn /\ stm' = stm
        /\ context'[c] = RecentContext(c)
    BY <1>3 DEF RefreshContext, ContextForPrompt, Go, TypeOK
  <2>2. Asked(c)' /\ Past(c)' /\ InOrder(c)'
    BY <2>1 DEF Story, Asked, Question, Past, InOrder
  <2>3. Prompted(c)'
    BY <2>1, RecentContextLast DEF Story, Asked, Prompted, Question
  <2> QED
    BY <1>t, <2>2, <2>3 DEF Story
<1>4. CASE PushedBy(c, "storing", "expiring", "user")
  <2>1. pc[c] = "storing" /\ pc'[c] = "expiring" /\ turn' = turn
    BY <1>4 DEF PushedBy, Go, TypeOK
  <2>2. /\ Len(stm'[c]) = Len(stm[c]) + 1
        /\ stm'[c][Len(stm[c]) + 1] = Question(c)
        /\ \A i \in 1 .. Len(stm[c]) : stm'[c][i] = stm[c][i]
    BY <1>4, PushLast DEF PushedBy, Question
  <2>3. Question(c).turn = turn[c] /\ Question(c).role = "user"
    BY DEF Question
  <2>4. \A i \in 1 .. Len(stm[c]) : stm[c][i].turn < turn[c]
    BY <2>1 DEF Story, Past
  <2>5. Asked(c)' /\ Prompted(c)'
    BY <1>s, <2>1, <2>2 DEF Asked, Prompted, Question, Last
  <2>6. Past(c)'
    <3> SUFFICES ASSUME NEW i \in 1 .. Len(stm[c]) + 1
                 PROVE  stm'[c][i].turn <= turn[c]
      BY <2>1, <2>2 DEF Past
    <3>1. CASE i = Len(stm[c]) + 1
      BY <1>s, <2>2, <2>3, <3>1
    <3>2. CASE i \in 1 .. Len(stm[c])
      BY <2>2, <3>2 DEF Story, Past
    <3> QED
      BY <1>s, <3>1, <3>2
  <2>7. InOrder(c)'
    <3>1. ASSUME NEW i \in 2 .. Len(stm[c])
          PROVE  stm'[c][i] = stm[c][i] /\ stm'[c][i - 1] = stm[c][i - 1]
      BY <1>s, <2>2
    <3>2. ASSUME NEW i, i = Len(stm[c]) + 1, i >= 2
          PROVE  /\ stm'[c][i] = Question(c)
                 /\ stm'[c][i - 1].turn < turn[c]
      BY <1>s, <2>2, <2>4, <3>2
    <3>3. ASSUME NEW i \in 2 .. Len(stm[c]) + 1
          PROVE  i \in 2 .. Len(stm[c]) \/ (i = Len(stm[c]) + 1 /\ i >= 2)
      BY <1>s
    <3> QED
      BY <2>2, <2>3, <3>1, <3>2, <3>3 DEF Story, InOrder
  <2> QED
    BY <1>t, <2>5, <2>6, <2>7 DEF Story
<1>5. CASE PushedBy(c, "storingReply", "expiringReply", "npc")
  <2> DEFINE m == [role |-> "npc", turn |-> turn[c]]
  <2>1. pc[c] = "storingReply" /\ pc'[c] = "expiringReply" /\ turn' = turn
    BY <1>5 DEF PushedBy, Go, TypeOK
  <2>2. /\ Len(stm'[c]) = Len(stm[c]) + 1
        /\ stm'[c][Len(stm[c]) + 1] = m
        /\ \A i \in 1 .. Len(stm[c]) : stm'[c][i] = stm[c][i]
    BY <1>5, PushLast DEF PushedBy
  <2>3. m.turn = turn[c] /\ m.role = "npc" /\ [m EXCEPT !.role = "user"] = Question(c)
    BY DEF Question
  <2>4. Len(stm[c]) >= 1 => stm[c][Len(stm[c])] = Question(c)
    BY <1>s, <2>1 DEF Story, Asked, Last
  <2> HIDE DEF m
  <2>5. Asked(c)' /\ Prompted(c)'
    BY <2>1 DEF Asked, Prompted
  <2>6. Past(c)'
    <3> SUFFICES ASSUME NEW i \in 1 .. Len(stm[c]) + 1
                 PROVE  stm'[c][i].turn <= turn[c]
      BY <2>1, <2>2 DEF Past
    <3>1. CASE i = Len(stm[c]) + 1
      BY <1>s, <2>2, <2>3, <3>1
    <3>2. CASE i \in 1 .. Len(stm[c])
      BY <2>2, <3>2 DEF Story, Past
    <3> QED
      BY <1>s, <3>1, <3>2
  <2>7. InOrder(c)'
    <3>1. ASSUME NEW i \in 2 .. Len(stm[c])
          PROVE  stm'[c][i] = stm[c][i] /\ stm'[c][i - 1] = stm[c][i - 1]
      BY <1>s, <2>2
    <3>2. ASSUME NEW i, i = Len(stm[c]) + 1, i >= 2
          PROVE  /\ stm'[c][i] = m
                 /\ stm'[c][i - 1] = Question(c)
      BY <1>s, <2>2, <2>4, <3>2
    <3>3. ASSUME NEW i \in 2 .. Len(stm[c]) + 1
          PROVE  i \in 2 .. Len(stm[c]) \/ (i = Len(stm[c]) + 1 /\ i >= 2)
      BY <1>s
    <3> QED
      BY <2>2, <2>3, <3>1, <3>2, <3>3 DEF Story, InOrder
  <2> QED
    BY <1>t, <2>5, <2>6, <2>7 DEF Story
<1> QED
  BY HistoryStep, <1>1, <1>2, <1>3, <1>4, <1>5

-----------------------------------------------------------------------------
(* A history is deleted by its handler only at the end, archived before. *)
ArchivedBeforeClearing == \A c \in Rows : pc[c] = "clearing" => c \in archived

LEMMA ArchivedStep ==
  ASSUME TypeOK, ArchivedBeforeClearing, NEW c \in Conns, Handler(c) \/ Environment(c)
  PROVE  ArchivedBeforeClearing'
<1>1. CASE SaveSummary(c)
  BY <1>1 DEF SaveSummary, Go, ArchivedBeforeClearing, TypeOK
<1>2. CASE ~SaveSummary(c)
  <2>1. archived' = archived /\ (pc'[c] = "clearing" => pc[c] = "clearing")
    <3> USE DEF TypeOK, memory, Go, IncGauge, DecGauge, Leave
    <3>1. CASE Environment(c)
      BY <3>1 DEF Environment, ClientSends, ClientLeaves, HeartbeatCloses, Lapse
    <3>2. CASE Abort(c) \/ LoadContext(c) \/ StartSession(c) \/ StartFails(c)
      BY <3>2 DEF Abort, LoadContext, StartSession, StartFails
    <3>3. CASE LeaveOnReceive(c) \/ Receive(c)
      BY <3>3 DEF LeaveOnReceive, Receive
    <3>4. CASE StoreMessage(c) \/ StoreReply(c) \/ RefreshContext(c) \/ TurnAborts(c)
      BY <3>4 DEF StoreMessage, StoreReply, RefreshContext, TurnAborts
    <3>5. CASE Generate(c) \/ StreamTokens(c) \/ PipelineFails(c) \/ Complete(c) \/ FallbackFails(c)
      BY <3>5 DEF Generate, StreamTokens, PipelineFails, Complete, FallbackFails
    <3>6. CASE ReadHistory(c) \/ Summarize(c) \/ ClearHistory(c)
                 \/ SessionEndRaises(c) \/ Close(c)
      BY <3>6 DEF ReadHistory, Summarize, ClearHistory, SessionEndRaises, Close
    <3> QED
      BY <1>2, <3>1, <3>2, <3>3, <3>4, <3>5, <3>6 DEF Handler
  <2>2. \A d \in Conns \ {c} : pc'[d] = pc[d]
    BY OthersUntouched
  <2> QED
    BY <2>1, <2>2, ChatAssumption DEF ArchivedBeforeClearing
<1> QED
  BY <1>1, <1>2

-----------------------------------------------------------------------------
IInv == TypeOK /\ SessionsAreCounted /\ Sound /\ ArchivedBeforeClearing

LEMMA InvInit == Init => IInv
<1> SUFFICES ASSUME Init PROVE IInv
  OBVIOUS
<1>1. {c \in Conns : pc[c] \in SessionSteps} = {} /\ gauge = 0
  BY DEF Init, SessionSteps
<1>2. SessionsAreCounted
  BY <1>1, FS_EmptySet DEF SessionsAreCounted
<1>3. Sound
  BY DEF Init, Sound, Story, Told, Asked, Prompted, Past, InOrder
<1>4. ArchivedBeforeClearing
  BY ChatAssumption DEF Init, ArchivedBeforeClearing
<1> QED
  BY <1>2, <1>3, <1>4, TypeInit DEF IInv

LEMMA InvStep == IInv /\ [Next]_vars => IInv'
<1> SUFFICES ASSUME IInv, [Next]_vars PROVE IInv'
  OBVIOUS
<1>1. ASSUME NEW c \in Conns, Handler(c) \/ Environment(c)
      PROVE  IInv'
  <2>1. TypeOK'
    BY <1>1, TypeHandler, TypeEnvironment DEF IInv
  <2>2. SessionsAreCounted'
    BY <1>1, CountedStep DEF IInv
  <2>3. ArchivedBeforeClearing'
    BY <1>1, ArchivedStep DEF IInv
  <2>4. Story(c)'
    BY <1>1, StoryStep DEF IInv, Sound
  <2>5. ASSUME NEW d \in Conns \ {c}
        PROVE  Story(d)'
    BY <1>1, <2>5, OthersUntouched
       DEF IInv, Sound, Story, Told, Asked, Prompted, Past, InOrder, Question
  <2> QED
    BY <2>1, <2>2, <2>3, <2>4, <2>5 DEF IInv, Sound
<1>2. CASE UNCHANGED vars
  BY <1>2 DEF vars, memory, IInv, TypeOK, SessionsAreCounted, ArchivedBeforeClearing,
     Sound, Story, Told, Asked, Prompted, Past, InOrder, Question
<1> QED
  BY <1>1, <1>2 DEF Next

LEMMA Invariance == Spec => []IInv
BY InvInit, InvStep, PTL DEF Spec

(* Every handler stands at one of its awaits, the Redis lists hold         *)
(* messages, and only sessions with a row are archived (chat.py, memory.py). *)
THEOREM TypeCorrect == Spec => []TypeOK
<1>1. IInv => TypeOK
  BY DEF IInv
<1> QED
  BY <1>1, Invariance, PTL

(* However many sessions open, fail and close at once, the clamped gauge   *)
(* (metrics.py:83) is never below the number of running sessions.          *)
THEOREM SessionsAlwaysCounted == Spec => []SessionsAreCounted
<1>1. IInv => SessionsAreCounted
  BY DEF IInv
<1> QED
  BY <1>1, Invariance, PTL

(* A connected client the handler waits for knows the turn, mood and       *)
(* favour the engine has, after replies and fallbacks alike.               *)
THEOREM ClientAlwaysCurrent == Spec => []ClientIsCurrent
<1>1. IInv => ClientIsCurrent
  BY DEF IInv, Sound, Story, Told, ClientIsCurrent
<1> QED
  BY <1>1, Invariance, PTL

(* The prompt of every generation ends with the message it answers, for    *)
(* any length of history and window (memory.py:68-96).                     *)
THEOREM PromptAlwaysEndsWithQuestion == Spec => []PromptEndsWithQuestion
<1>1. IInv => PromptEndsWithQuestion
  BY DEF IInv, Sound, Story, Prompted, Question, PromptEndsWithQuestion
<1> QED
  BY <1>1, Invariance, PTL

(* What Redis stores of a session is always a dialogue in order.           *)
THEOREM HistoryAlwaysDialogue == Spec => []HistoryIsDialogue
<1>1. IInv => HistoryIsDialogue
  BY DEF IInv, Sound, Story, InOrder, HistoryIsDialogue
<1> QED
  BY <1>1, Invariance, PTL

(* No handler deletes the history of a session that has a row before the   *)
(* summary is committed, wherever the session's end raises.                *)
THEOREM HistoryAlwaysKept == Spec => HistoryKeptUntilArchived
<1>1. ASSUME IInv, Next, NEW d \in Rows, pc'[d] # pc[d], stm[d] # <<>>, stm'[d] = <<>>
      PROVE  d \in archived
  <2>1. d \in Conns /\ TypeOK
    BY <1>1, ChatAssumption DEF IInv
  <2>2. PICK c \in Conns : Handler(c) \/ Environment(c)
    BY <1>1 DEF Next
  <2>3. c = d
    BY <1>1, <2>1, <2>2, OthersUntouched
  <2>4. ClearHistory(c)
    <3> USE <2>1 DEF TypeOK, memory, Go, IncGauge, DecGauge, Leave
    <3>1. CASE Environment(c)
      BY <1>1, <2>3, <3>1 DEF Environment, ClientSends, ClientLeaves, HeartbeatCloses, Lapse
    <3>2. CASE Abort(c) \/ LoadContext(c) \/ StartSession(c) \/ StartFails(c)
      BY <1>1, <2>3, <3>2 DEF Abort, LoadContext, StartSession, StartFails
    <3>3. CASE LeaveOnReceive(c) \/ Receive(c)
      BY <1>1, <2>3, <3>3 DEF LeaveOnReceive, Receive
    <3>4. CASE StoreMessage(c) \/ StoreReply(c)
      <4>1. SetExpiry(c) \/ \E role \in {"user", "npc"} : Push(c, role)
        BY <3>4 DEF StoreMessage, StoreReply
      <4>2. ASSUME NEW role \in {"user", "npc"}, Push(c, role) PROVE FALSE
        <5>1. TypeOK
          BY <2>1
        <5> HIDE DEF TypeOK
        <5>2. stm[c] \in Seq(Message) /\ Len(stm'[c]) = Len(stm[c]) + 1
          BY <4>2, <5>1, PushLast
        <5> QED
          BY <1>1, <2>3, <5>2
      <4> QED
        BY <1>1, <2>3, <4>1, <4>2 DEF SetExpiry
    <3>5. CASE RefreshContext(c) \/ TurnAborts(c)
      BY <1>1, <2>3, <3>5 DEF RefreshContext, ContextForPrompt, TurnAborts
    <3>6. CASE Generate(c) \/ StreamTokens(c) \/ PipelineFails(c) \/ Complete(c) \/ FallbackFails(c)
      BY <1>1, <2>3, <3>6 DEF Generate, StreamTokens, PipelineFails, Complete, FallbackFails
    <3>7. CASE ReadHistory(c) \/ Summarize(c) \/ SaveSummary(c) \/ SessionEndRaises(c) \/ Close(c)
      BY <1>1, <2>3, <3>7 DEF ReadHistory, Summarize, SaveSummary, SessionEndRaises, Close
    <3> QED
      BY <2>2, <3>1, <3>2, <3>3, <3>4, <3>5, <3>6, <3>7 DEF Handler
  <2> QED
    BY <1>1, <2>3, <2>4 DEF ClearHistory, Go, IInv, ArchivedBeforeClearing
<1>2. IInv /\ [Next]_vars =>
        [\A c \in Rows : pc'[c] # pc[c] /\ stm[c] # <<>> /\ stm'[c] = <<>>
           => c \in archived]_vars
  BY <1>1
<1> QED
  BY <1>2, Invariance, PTL DEF Spec, HistoryKeptUntilArchived
=============================================================================
