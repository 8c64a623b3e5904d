--------------------------- MODULE Browser_proofs ---------------------------
(***************************************************************************)
(* Proofs about Browser: for any NPCs, any number of messages and attempts *)
(* the status, the typing indicator and the screen tell the truth.         *)
(***************************************************************************)
EXTENDS Browser, FiniteSetTheorems, TLAPS

(* Which frames of a socket end an answer.                                 *)
Completes(frames) == {i \in DOMAIN frames : frames[i] = "complete"}

(* Answers the server owes or has on their way.                            *)
Coming == IF socket = None THEN 0 ELSE socket.due + Cardinality(Completes(socket.frames))

(* The hook dials the selected NPC again, and only an open socket has      *)
(* anything on its way; tokens are followed by the frame that ends them.   *)
Paired(f) ==
  \A i \in DOMAIN f : f[i] = "token" => i + 1 \in DOMAIN f /\ f[i + 1] = "complete"

SocketOK ==
  /\ timer => socket # None
  /\ socket # None =>
       /\ page = "shown" => target = selected
       /\ socket.phase # "open" => socket.due = 0 /\ socket.frames = <<>>
       /\ Paired(socket.frames)

(* Every answer, shown or to come, is to a message of its own.             *)
AnswersAreAsked ==
  /\ Cardinality(By("npc")) + Coming <= Written
  /\ Written <= MaxMessages

(* Without overlapping selections only the selected NPC's profile is on    *)
(* its way.                                                                *)
ProfilesAskedFor ==
  ~overlapped => \A r \in requests : r.what = "profile" => r.npc = selected

IInv ==
  /\ TypeOK
  /\ StatusTellsTruth
  /\ TypingMeansAnswerDue
  /\ ScreenShowsSelected
  /\ SocketOK
  /\ AnswersAreAsked
  /\ ProfilesAskedFor

-----------------------------------------------------------------------------
(* Counting messages and frames. *)

Sent(ms, who) == {i \in DOMAIN ms : ms[i].from = who}

LEMMA SentCount ==
  ASSUME NEW ms \in Seq(Message)
  PROVE  /\ \A who : IsFiniteSet(Sent(ms, who)) /\ Cardinality(Sent(ms, who)) \in Nat
         /\ Cardinality(Sent(ms, "npc")) + Cardinality(Sent(ms, "user")) = Len(ms)
  <1>1. /\ Len(ms) \in Nat /\ DOMAIN ms = 1 .. Len(ms)
        /\ \A i \in 1 .. Len(ms) : ms[i] \in Message
        /\ IsFiniteSet(1 .. Len(ms)) /\ Cardinality(1 .. Len(ms)) = Len(ms)
    <2>1. /\ Len(ms) \in Nat /\ DOMAIN ms = 1 .. Len(ms)
          /\ \A i \in 1 .. Len(ms) : ms[i] \in Message
      OBVIOUS
    <2>2. IsFiniteSet(1 .. Len(ms))
      BY <2>1, FS_Interval
    <2>3. Cardinality(1 .. Len(ms)) = IF 1 > Len(ms) THEN 0 ELSE Len(ms) - 1 + 1
      BY <2>1, FS_Interval
    <2> QED
      BY <2>1, <2>2, <2>3
  <1>2. \A who : IsFiniteSet(Sent(ms, who)) /\ Cardinality(Sent(ms, who)) \in Nat
    <2> TAKE who
    <2>1. Sent(ms, who) \subseteq 1 .. Len(ms)
      BY DEF Sent
    <2> QED
      BY <1>1, <2>1, FS_Subset, FS_CardinalityType
  <1>3. Sent(ms, "npc") \cup Sent(ms, "user") = 1 .. Len(ms)
    <2>1. \A i \in 1 .. Len(ms) : ms[i].from \in {"user", "npc"}
      BY <1>1 DEF Message
    <2> QED
      BY <1>1, <2>1 DEF Sent
  <1>4. Sent(ms, "npc") \cap Sent(ms, "user") = {}
    BY DEF Sent
  <1>5. Cardinality(1 .. Len(ms))
          = Cardinality(Sent(ms, "npc")) + Cardinality(Sent(ms, "user"))
              - Cardinality(Sent(ms, "npc") \cap Sent(ms, "user"))
    BY <1>2, <1>3, FS_Union
  <1>6. Cardinality(Sent(ms, "npc") \cap Sent(ms, "user")) = 0
    BY <1>4, FS_EmptySet
  <1>7. Cardinality(Sent(ms, "npc")) \in Nat /\ Cardinality(Sent(ms, "user")) \in Nat
    BY <1>2
  <1>8. Cardinality(Sent(ms, "npc")) + Cardinality(Sent(ms, "user")) = Len(ms)
    BY <1>1, <1>5, <1>6, <1>7
  <1> QED
    BY <1>2, <1>8

(* A message that is appended counts for its author, and no prefix that    *)
(* was there before changes.                                               *)
LEMMA SentAppended ==
  ASSUME NEW ms \in Seq(Message), NEW m \in Message
  PROVE  LET as == Append(ms, m)
         IN  /\ as \in Seq(Message) /\ DOMAIN as = 1 .. Len(ms) + 1
             /\ as[Len(ms) + 1] = m /\ \A i \in 1 .. Len(ms) : as[i] = ms[i]
             /\ Cardinality(Sent(as, m.from)) = Cardinality(Sent(ms, m.from)) + 1
             /\ \A who : who # m.from => Sent(as, who) = Sent(ms, who)
             /\ \A who : \A i \in 1 .. Len(ms) :
                  Sent(as, who) \cap 1 .. i = Sent(ms, who) \cap 1 .. i
  <1> DEFINE as == Append(ms, m)
             n == Len(ms) + 1
  <1>1. /\ as \in Seq(Message) /\ DOMAIN as = 1 .. n /\ n \in Nat
        /\ as[n] = m /\ \A i \in 1 .. Len(ms) : as[i] = ms[i]
        /\ DOMAIN ms = 1 .. Len(ms) /\ Len(ms) \in Nat
    OBVIOUS
  <1> HIDE DEF as
  <1>a. \A who : \A i : i \in Sent(as, who) <=> i \in 1 .. n /\ as[i].from = who
    BY <1>1 DEF Sent
  <1>b. \A who : \A i : i \in Sent(ms, who) <=> i \in 1 .. Len(ms) /\ ms[i].from = who
    BY <1>1 DEF Sent
  <1>c. \A i : i \in 1 .. n <=> i \in 1 .. Len(ms) \/ i = n
    BY <1>1
  <1>2. Sent(as, m.from) = Sent(ms, m.from) \cup {n}
    <2> DEFINE who == m.from
    <2> HIDE DEF who
    <2>0. as[n].from = who
      BY <1>1 DEF who
    <2>1. \A i : i \in Sent(as, who) <=> i \in Sent(ms, who) \/ i = n
      <3> TAKE i
      <3>1. CASE i = n
        <4>1. n \in 1 .. n
          BY <1>1
        <4> QED
          BY <1>a, <2>0, <3>1, <4>1
      <3>2. CASE i # n
        <4>1. i \in 1 .. Len(ms) => as[i] = ms[i]
          BY <1>1
        <4> QED
          BY <1>a, <1>b, <1>c, <3>2, <4>1
      <3> QED
        BY <3>1, <3>2
    <2> QED
      BY <2>1 DEF who
  <1>3. n \notin Sent(ms, m.from)
    BY <1>1, <1>b
  <1>4. Cardinality(Sent(as, m.from)) = Cardinality(Sent(ms, m.from)) + 1
    <2> DEFINE S == Sent(ms, m.from)
    <2>1. IsFiniteSet(S)
      BY SentCount
    <2>2. n \notin S /\ Sent(as, m.from) = S \cup {n}
      BY <1>2, <1>3
    <2> HIDE DEF S
    <2>3. Cardinality(S \cup {n}) = Cardinality(S) + 1
      BY <2>1, <2>2, FS_AddElement
    <2> QED
      BY <2>2, <2>3 DEF S
  <1>5. \A who : who # m.from => Sent(as, who) = Sent(ms, who)
    <2> TAKE who
    <2>1. who # m.from => \A i : i \in Sent(as, who) <=> i \in Sent(ms, who)
      BY <1>1, <1>a, <1>b, <1>c
    <2> QED
      BY <2>1
  <1>6. \A who : \A i \in 1 .. Len(ms) : Sent(as, who) \cap 1 .. i = Sent(ms, who) \cap 1 .. i
    <2> TAKE who
    <2> TAKE i \in 1 .. Len(ms)
    <2>1. \A j \in 1 .. i : j \in 1 .. Len(ms)
      BY <1>1
    <2>2. \A j \in 1 .. i : j \in Sent(as, who) <=> j \in Sent(ms, who)
      BY <1>1, <1>a, <1>b, <1>c, <2>1
    <2> QED
      BY <2>2
  <1> QED
    BY <1>1, <1>4, <1>5, <1>6 DEF as

LEMMA CompletesCount ==
  ASSUME NEW f \in Seq(Frame)
  PROVE  /\ IsFiniteSet(Completes(f))
         /\ Cardinality(Completes(f)) \in Nat
         /\ f = <<>> => Cardinality(Completes(f)) = 0
         /\ \A i \in Completes(f) : Cardinality(Completes(f)) > 0
  <1>1. IsFiniteSet(1 .. Len(f))
    BY FS_Interval
  <1>2. Completes(f) \subseteq 1 .. Len(f)
    BY DEF Completes
  <1>3. IsFiniteSet(Completes(f)) /\ Cardinality(Completes(f)) \in Nat
    BY <1>1, <1>2, FS_Subset, FS_CardinalityType
  <1>4. f = <<>> => Completes(f) = {}
    BY DEF Completes
  <1> QED
    BY <1>3, <1>4, FS_EmptySet

(* The frames of one more answer.                                          *)
LEMMA ReplyAppended ==
  ASSUME NEW f \in Seq(Frame), NEW reply \in {<<"token", "complete">>, <<"complete">>}
  PROVE  /\ f \o reply \in Seq(Frame)
         /\ Cardinality(Completes(f \o reply)) = Cardinality(Completes(f)) + 1
         /\ Paired(f) => Paired(f \o reply)
         /\ \E i \in DOMAIN (f \o reply) : (f \o reply)[i] = "complete"
  <1> DEFINE g == f \o reply
             n == Len(g)
  <1>1. /\ reply \in Seq(Frame) /\ Len(reply) \in {1, 2} /\ reply[Len(reply)] = "complete"
        /\ Len(reply) = 2 => reply[1] = "token"
    <2>1. CASE reply = <<"token", "complete">>
      BY <2>1 DEF Frame
    <2>2. CASE reply = <<"complete">>
      BY <2>2 DEF Frame
    <2> QED
      BY <2>1, <2>2
  <1>2. /\ g \in Seq(Frame) /\ n = Len(f) + Len(reply) /\ DOMAIN g = 1 .. n
        /\ DOMAIN f = 1 .. Len(f) /\ Len(f) \in Nat
        /\ \A i \in 1 .. Len(f) : g[i] = f[i]
        /\ \A i \in 1 .. Len(reply) : g[Len(f) + i] = reply[i]
    BY <1>1
  <1> HIDE DEF g
  <1>3. g[n] = "complete" /\ (\A i \in 1 .. n - 1 : i > Len(f) => g[i] = "token")
    <2>1. g[n] = reply[Len(reply)]
      <3>1. Len(reply) \in 1 .. Len(reply)
        BY <1>1
      <3> QED
        BY <1>2, <3>1
    <2>2. ASSUME NEW i \in 1 .. n - 1, i > Len(f)
          PROVE  g[i] = "token"
      <3>1. i = Len(f) + 1 /\ Len(reply) = 2
        BY <1>1, <1>2, <2>2
      <3> QED
        BY <1>1, <1>2, <3>1
    <2> QED
      BY <1>1, <2>1, <2>2
  <1> HIDE DEF n
  <1>4. n \in Nat /\ n > Len(f) /\ n <= Len(f) + 2
    BY <1>1, <1>2
  <1>5. Completes(g) = Completes(f) \cup {n} /\ n \notin Completes(f)
    BY <1>2, <1>3, <1>4 DEF Completes
  <1>6. Cardinality(Completes(g)) = Cardinality(Completes(f)) + 1
    <2>1. IsFiniteSet(Completes(f))
      BY CompletesCount
    <2> QED
      BY <1>5, <2>1, FS_AddElement
  <1>7. Paired(f) => Paired(g)
    <2> SUFFICES ASSUME Paired(f), NEW i \in 1 .. n, g[i] = "token"
                 PROVE  i + 1 \in 1 .. n /\ g[i + 1] = "complete"
      BY <1>2 DEF Paired
    <2>1. CASE i <= Len(f)
      <3>1. i \in 1 .. Len(f) /\ f[i] = "token"
        BY <1>2, <1>4, <2>1
      <3>2. i + 1 \in 1 .. Len(f) /\ f[i + 1] = "complete"
        BY <1>2, <3>1 DEF Paired
      <3> QED
        BY <1>2, <1>4, <3>2
    <2>2. CASE i > Len(f)
      <3>1. i # n
        BY <1>3
      <3>2. i + 1 = n
        BY <1>4, <2>2, <3>1
      <3> QED
        BY <1>3, <1>4, <3>2
    <2> QED
      BY <1>2, <1>4, <2>1, <2>2
  <1> QED
    BY <1>2, <1>3, <1>4, <1>6, <1>7 DEF g

(* The frames that are left when the first is delivered.                   *)
LEMMA TailDelivered ==
  ASSUME NEW f \in Seq(Frame), f # <<>>
  PROVE  /\ Head(f) \in Frame /\ Tail(f) \in Seq(Frame)
         /\ Cardinality(Completes(f)) =
              Cardinality(Completes(Tail(f))) + (IF Head(f) = "complete" THEN 1 ELSE 0)
         /\ Paired(f) =>
              /\ Paired(Tail(f))
              /\ Head(f) = "token" => \E i \in DOMAIN Tail(f) : Tail(f)[i] = "complete"
  <1> DEFINE g == Tail(f)
             n == Len(f)
             rest == Completes(f) \ {1}
             up == [i \in Completes(g) |-> i + 1]
  <1>1. /\ g \in Seq(Frame) /\ DOMAIN g = 1 .. n - 1 /\ n \in Nat /\ n > 0
        /\ DOMAIN f = 1 .. n /\ Head(f) = f[1] /\ f[1] \in Frame
        /\ \A i \in 1 .. n - 1 : g[i] = f[i + 1]
    OBVIOUS
  <1> HIDE DEF g, n
  <1>2. up \in Bijection(Completes(g), rest)
    <2>1. up \in [Completes(g) -> rest]
      BY <1>1 DEF Completes
    <2>2. \A i, j \in Completes(g) : up[i] = up[j] => i = j
      BY <1>1 DEF Completes
    <2>3. \A k \in rest : \E i \in Completes(g) : up[i] = k
      <3> TAKE k \in rest
      <3>1. k - 1 \in Completes(g)
        BY <1>1 DEF Completes
      <3>2. up[k - 1] = k
        BY <1>1, <3>1 DEF Completes
      <3> QED
        BY <3>1, <3>2
    <2> HIDE DEF up, rest
    <2> QED
      BY <2>1, <2>2, <2>3 DEF Bijection, Injection, Surjection, IsInjective
  <1>3. Cardinality(rest) = Cardinality(Completes(g))
    <2>1. IsFiniteSet(Completes(g))
      BY <1>1, CompletesCount
    <2>2. ExistsBijection(Completes(g), rest)
      BY <1>2 DEF ExistsBijection
    <2> QED
      BY <2>1, <2>2, FS_Bijection
  <1>4. Cardinality(Completes(f)) = Cardinality(rest) + (IF f[1] = "complete" THEN 1 ELSE 0)
    <2>1. IsFiniteSet(Completes(f)) /\ Cardinality(Completes(f)) \in Nat
      BY CompletesCount
    <2>2. CASE f[1] = "complete"
      <3>1. 1 \in Completes(f)
        BY <1>1, <2>2 DEF Completes
      <3>2. Cardinality(rest) = Cardinality(Completes(f)) - 1
        BY <2>1, <3>1, FS_RemoveElement
      <3> QED
        BY <2>1, <2>2, <3>2
    <2>3. CASE f[1] # "complete"
      <3>1. 1 \notin Completes(f)
        BY <2>3 DEF Completes
      <3>2. rest = Completes(f)
        BY <3>1
      <3>3. Cardinality(rest) = Cardinality(Completes(f))
        BY <3>2
      <3> QED
        BY <2>1, <2>3, <3>3
    <2> QED
      BY <2>2, <2>3
  <1>5. ASSUME Paired(f)
        PROVE  /\ Paired(g)
               /\ f[1] = "token" => \E i \in DOMAIN g : g[i] = "complete"
    <2>1. Paired(g)
      <3> SUFFICES ASSUME NEW i \in 1 .. n - 1, g[i] = "token"
                   PROVE  i + 1 \in 1 .. n - 1 /\ g[i + 1] = "complete"
        BY <1>1 DEF Paired
      <3>1. f[i + 1] = "token" /\ i + 1 \in 1 .. n
        BY <1>1
      <3>2. i + 2 \in 1 .. n /\ f[i + 2] = "complete"
        BY <1>1, <1>5, <3>1 DEF Paired
      <3> QED
        BY <1>1, <3>2
    <2>2. ASSUME f[1] = "token"
          PROVE  1 \in DOMAIN g /\ g[1] = "complete"
      <3>1. 1 \in DOMAIN f
        BY <1>1
      <3>2. 1 + 1 \in 1 .. n /\ f[1 + 1] = "complete"
        BY <1>1, <1>5, <2>2, <3>1 DEF Paired
      <3>3. 1 \in 1 .. n - 1
        BY <1>1, <3>2
      <3> QED
        BY <1>1, <3>2, <3>3
    <2> QED
      BY <2>1, <2>2
  <1> QED
    BY <1>1, <1>3, <1>4, <1>5 DEF g

-----------------------------------------------------------------------------
(* The parts of a state that steps share. *)

AppType ==
  /\ page \in {"shown", "blank"}
  /\ selected \in Npcs \cup {None}
  /\ messages \in Seq(Message) /\ Len(messages) <= 2 * MaxMessages
  /\ profile \in Npcs \cup {None}
  /\ requests \in SUBSET Request
  /\ overlapped \in BOOLEAN

HookType ==
  /\ status \in {"disconnected", "connecting", "connected"}
  /\ typing \in BOOLEAN
  /\ attempts \in 0 .. MaxReconnectAttempts
  /\ timer \in BOOLEAN
  /\ wanted \in BOOLEAN
  /\ target \in Npcs \cup {None}
  /\ socket \in Socket \cup {None}
  /\ stale \in SUBSET Socket

LEMMA TypeParts == TypeOK <=> AppType /\ HookType
BY DEF TypeOK, AppType, HookType

(* What is coming over the socket that is left.                            *)
LEMMA ComingType == ASSUME IInv PROVE Coming \in Nat
  <1>1. CASE socket = None
    BY <1>1 DEF Coming
  <1>2. CASE socket # None
    <2>1. socket \in Socket /\ socket.frames \in Seq(Frame) /\ socket.due \in Nat
      BY <1>2, BrowserAssumption DEF IInv, TypeOK, Socket
    <2>2. Cardinality(Completes(socket.frames)) \in Nat
      BY <2>1, CompletesCount
    <2> QED
      BY <1>2, <2>1, <2>2 DEF Coming
  <1> QED
    BY <1>1, <1>2

(* While nothing is said no more answers come than are owed.               *)
LEMMA AnswersKept ==
  ASSUME IInv, messages' = messages, Coming' \in Nat, Coming' <= Coming
  PROVE  AnswersAreAsked'
  <1>1. Cardinality(By("npc"))' = Cardinality(By("npc")) /\ Written' = Written
    BY DEF By, Written
  <1>2. Cardinality(By("npc")) \in Nat /\ Written \in Nat
    <2>1. messages \in Seq(Message)
      BY DEF IInv, TypeOK
    <2>2. Cardinality(Sent(messages, "npc")) \in Nat /\ Cardinality(Sent(messages, "user")) \in Nat
      BY <2>1, SentCount
    <2> QED
      BY <2>2 DEF By, Written, Sent
  <1>3. /\ Cardinality(By("npc")) + Coming <= Written /\ Written <= MaxMessages
        /\ Coming \in Nat /\ MaxMessages \in Nat
    BY ComingType, BrowserAssumption DEF IInv, AnswersAreAsked
  <1>4. Cardinality(By("npc"))' + Coming' <= Written' /\ Written' <= MaxMessages
    BY <1>1, <1>2, <1>3
  <1> QED
    BY <1>4 DEF AnswersAreAsked

(* What the screen shows stays true while the App does nothing.            *)
LEMMA AppSame ==
  ASSUME IInv, UNCHANGED app
  PROVE  AppType' /\ ScreenShowsSelected' /\ ProfilesAskedFor'
  <1>1. AppType'
    BY DEF IInv, TypeOK, AppType, app
  <1>2. ScreenShowsSelected' /\ ProfilesAskedFor'
    BY DEF IInv, ScreenShowsSelected, ProfilesAskedFor, app, By
  <1> QED
    BY <1>1, <1>2

(* Half of what is said at most is answers, one more message of a kind or  *)
(* the other.                                                              *)
LEMMA OneMoreSaid ==
  ASSUME NEW a \in Nat, NEW u \in Nat, NEW c \in Nat, NEW d \in Nat, a + c <= u
  PROVE  /\ d + 1 <= c => (a + 1) + d <= u /\ 2 * (a + 1) <= a + u + 1
         /\ d <= c + 1 => a + d <= u + 1 /\ 2 * a <= a + u + 1
OBVIOUS

(* A message of the selected NPC's chat is shown.                          *)
LEMMA MessageShown ==
  ASSUME IInv, NEW m \in Message, m.npc = selected, messages' = Append(messages, m),
         UNCHANGED <<page, selected, profile, requests, overlapped>>,
         Coming' \in Nat,
         m.from = "user" => Written < MaxMessages /\ Coming' <= Coming + 1,
         m.from = "npc" => Coming' + 1 <= Coming
  PROVE  AppType' /\ ScreenShowsSelected' /\ ProfilesAskedFor' /\ AnswersAreAsked'
  <1> DEFINE n == Len(messages) + 1
             npc == Cardinality(By("npc"))
             npc2 == Cardinality(By("npc"))'
  <1>0. messages \in Seq(Message) /\ Len(messages) \in Nat /\ m.from \in {"user", "npc"}
    BY DEF IInv, TypeOK, Message
  <1>1. /\ \A who : By(who) = Sent(messages, who)
        /\ Written = Cardinality(Sent(messages, "user"))
        /\ npc = Cardinality(Sent(messages, "npc"))
    BY DEF By, Sent, Written
  <1>2. /\ By("npc")' = Sent(messages', "npc")
        /\ Written' = Cardinality(Sent(messages', "user"))
        /\ npc2 = Cardinality(Sent(messages', "npc"))
    BY DEF By, Sent, Written
  <1>3. /\ npc \in Nat /\ Written \in Nat /\ npc + Written = Len(messages)
    BY <1>0, <1>1, SentCount
  <1>4. /\ messages' \in Seq(Message) /\ DOMAIN messages' = 1 .. n /\ Len(messages') = n
        /\ messages'[n] = m /\ \A i \in 1 .. Len(messages) : messages'[i] = messages[i]
        /\ Cardinality(Sent(messages', m.from)) = Cardinality(Sent(messages, m.from)) + 1
        /\ \A who : who # m.from => Sent(messages', who) = Sent(messages, who)
        /\ \A who : \A i \in 1 .. Len(messages) :
              Sent(messages', who) \cap 1 .. i = Sent(messages, who) \cap 1 .. i
    BY <1>0, SentAppended
  <1>5. /\ npc2 = IF m.from = "npc" THEN npc + 1 ELSE npc
        /\ Written' = IF m.from = "user" THEN Written + 1 ELSE Written
    <2>1. CASE m.from = "npc"
      BY <1>1, <1>2, <1>4, <2>1
    <2>2. CASE m.from = "user"
      BY <1>1, <1>2, <1>4, <2>2
    <2> QED
      BY <1>0, <2>1, <2>2
  <1>6. npc + Coming <= Written /\ Written <= MaxMessages /\ Coming \in Nat /\ MaxMessages \in Nat
    BY ComingType, BrowserAssumption DEF IInv, AnswersAreAsked
  <1> HIDE DEF npc, npc2, n
  <1>7. /\ npc2 + Coming' <= Written' /\ Written' <= MaxMessages
        /\ 2 * npc2 <= n /\ n = Len(messages) + 1
    <2>1. n = Len(messages) + 1
      BY DEF n
    <2>2. CASE m.from = "npc"
      <3>1. npc2 = npc + 1 /\ Written' = Written /\ Coming' + 1 <= Coming
        BY <1>5, <2>2
      <3>2. (npc + 1) + Coming' <= Written /\ 2 * (npc + 1) <= npc + Written + 1
        BY <1>3, <1>6, <3>1, OneMoreSaid
      <3> QED
        BY <1>3, <1>6, <2>1, <3>1, <3>2
    <2>3. CASE m.from = "user"
      <3>1. npc2 = npc /\ Written' = Written + 1 /\ Coming' <= Coming + 1 /\ Written < MaxMessages
        BY <1>5, <2>3
      <3>2. npc + Coming' <= Written + 1 /\ 2 * npc <= npc + Written + 1
        BY <1>3, <1>6, <3>1, OneMoreSaid
      <3>3. Written + 1 <= MaxMessages
        BY <1>3, <1>6, <3>1
      <3> QED
        BY <1>3, <2>1, <3>1, <3>2, <3>3
    <2> QED
      BY <1>0, <2>2, <2>3
  <1>8. AnswersAreAsked'
    BY <1>7 DEF AnswersAreAsked, npc2
  <1>9. AppType'
    <2>1. Len(messages') <= 2 * MaxMessages
      BY <1>0, <1>3, <1>4, <1>5, <1>6, <1>7
    <2> QED
      BY <1>4, <2>1 DEF AppType, IInv, TypeOK
  <1>10. ScreenShowsSelected'
    <2>1. \A i \in DOMAIN messages' : messages'[i].npc = selected'
      <3>1. \A i \in 1 .. Len(messages) : messages[i].npc = selected
        BY <1>0 DEF IInv, ScreenShowsSelected
      <3>2. \A i \in 1 .. n : i \in 1 .. Len(messages) \/ i = n
        BY <1>0, <1>7
      <3> QED
        BY <1>4, <3>1, <3>2
    <2>2. ASSUME NEW i \in 1 .. n
          PROVE  2 * Cardinality(Sent(messages', "npc") \cap 1 .. i) <= i
      <3>1. CASE i = n
        <4>1. Sent(messages', "npc") \cap 1 .. n = Sent(messages', "npc")
          BY <1>4 DEF Sent
        <4>2. 2 * npc2 <= n
          BY <1>7
        <4> QED
          BY <1>2, <3>1, <4>1, <4>2
      <3>2. CASE i # n
        <4>1. i \in 1 .. Len(messages)
          BY <1>0, <1>7, <3>2
        <4>2. 2 * Cardinality(By("npc") \cap 1 .. i) <= i
          BY <1>0, <4>1 DEF IInv, ScreenShowsSelected
        <4> QED
          BY <1>1, <1>4, <4>1, <4>2
      <3> QED
        BY <3>1, <3>2
    <2>3. ~overlapped' => profile' = selected'
      BY DEF IInv, ScreenShowsSelected
    <2> QED
      BY <1>2, <1>4, <2>1, <2>2, <2>3 DEF ScreenShowsSelected
  <1>11. ProfilesAskedFor'
    BY DEF IInv, ProfilesAskedFor
  <1> QED
    BY <1>8, <1>9, <1>10, <1>11

(* A socket that is given up is silenced.                                  *)
LEMMA GivenUpSilenced ==
  ASSUME IInv
  PROVE  GivenUp \in SUBSET Socket /\ \A s \in GivenUp : ~s.heard
  <1>1. stale \in SUBSET Socket /\ \A s \in stale : ~s.heard
    BY DEF IInv, TypeOK, StatusTellsTruth
  <1>2. socket # None => HangUp(socket) \in Socket /\ ~HangUp(socket).heard
    <2> SUFFICES ASSUME socket # None
                 PROVE  HangUp(socket) \in Socket /\ ~HangUp(socket).heard
      OBVIOUS
    <2>1. socket \in Socket /\ <<>> \in Seq(Frame) /\ 0 \in 0 .. MaxMessages
      BY BrowserAssumption DEF IInv, TypeOK
    <2> QED
      BY <2>1 DEF HangUp, Socket
  <1> QED
    BY <1>1, <1>2 DEF GivenUp

(* connectWs leaves one fresh socket.                                      *)
LEMMA Connected ==
  ASSUME IInv, NEW n \in Npcs, Connect(n)
  PROVE  /\ timer' = FALSE /\ wanted' = TRUE /\ target' = n /\ status' = "connecting"
         /\ stale' \in SUBSET Socket /\ \A s \in stale' : ~s.heard
         /\ socket' \in Socket /\ socket' # None
         /\ socket'.npc = n /\ socket'.phase = "connecting" /\ socket'.heard
         /\ socket'.due = 0 /\ socket'.frames = <<>>
         /\ Coming' = 0
  <1>1. socket' = [npc |-> n, phase |-> "connecting", heard |-> TRUE, due |-> 0,
                   frames |-> <<>>]
    BY DEF Connect
  <1>2. socket' \in Socket
    <2>1. <<>> \in Seq(Frame) /\ 0 \in 0 .. MaxMessages
      BY BrowserAssumption
    <2> QED
      BY <1>1, <2>1 DEF Socket
  <1>3. socket' # None
    BY <1>2, BrowserAssumption
  <1>4. Cardinality(Completes(<<>>)) = 0
    <2>1. <<>> \in Seq(Frame)
      OBVIOUS
    <2> QED
      BY <2>1, CompletesCount
  <1>5. Coming' = 0
    BY <1>1, <1>3, <1>4 DEF Coming
  <1>6. stale' = GivenUp
    BY DEF Connect, Cleanup
  <1> QED
    BY <1>1, <1>2, <1>3, <1>5, <1>6, GivenUpSilenced DEF Connect, Cleanup

-----------------------------------------------------------------------------
(* One lemma for every step. *)

LEMMA InitIInv == Init => IInv
  <1> SUFFICES ASSUME Init
               PROVE  IInv
    OBVIOUS
  <1>1. TypeOK
    <2>1. 0 \in 0 .. MaxReconnectAttempts
      BY BrowserAssumption
    <2>2. <<>> \in Seq(Message) /\ Len(<<>>) <= 2 * MaxMessages
      BY BrowserAssumption
    <2> QED
      BY <2>1, <2>2 DEF Init, TypeOK
  <1>2. messages = <<>> /\ socket = None /\ stale = {} /\ ~typing /\ ~timer /\ profile = selected
        /\ page = "shown" /\ selected = None /\ requests = {}
    BY DEF Init
  <1>3. By("npc") = {} /\ By("user") = {}
    BY <1>2 DEF By
  <1>4. StatusTellsTruth /\ TypingMeansAnswerDue /\ SocketOK /\ ProfilesAskedFor
    BY <1>2 DEF StatusTellsTruth, TypingMeansAnswerDue, SocketOK, ProfilesAskedFor
  <1>5. ScreenShowsSelected
    BY <1>2 DEF ScreenShowsSelected
  <1>6. AnswersAreAsked
    <2>1. Cardinality(By("npc")) = 0 /\ Written = 0
      BY <1>3, FS_EmptySet DEF Written
    <2>2. Coming = 0
      BY <1>2 DEF Coming
    <2> QED
      BY <2>1, <2>2, BrowserAssumption DEF AnswersAreAsked
  <1> QED
    BY <1>1, <1>4, <1>5, <1>6 DEF IInv

LEMMA SelectNpcIInv ==
  ASSUME IInv, NEW n \in Npcs, SelectNpc(n)
  PROVE  IInv'
  <1>1. /\ page = "shown" /\ page' = "shown" /\ selected' = n /\ messages' = <<>>
        /\ profile' = n /\ attempts' = 0 /\ typing' = FALSE
        /\ requests' = requests \cup Requests(n)
        /\ overlapped' = \E r \in requests : r.what = "profile"
        /\ Connect(n)
    BY DEF SelectNpc, DefaultProfile
  <1>2. /\ timer' = FALSE /\ wanted' = TRUE /\ target' = n /\ status' = "connecting"
        /\ stale' \in SUBSET Socket /\ \A s \in stale' : ~s.heard
        /\ socket' \in Socket /\ socket' # None
        /\ socket'.npc = n /\ socket'.phase = "connecting" /\ socket'.heard
        /\ socket'.due = 0 /\ socket'.frames = <<>>
        /\ Coming' = 0
    BY <1>1, Connected
  <1>3. n # None
    BY BrowserAssumption
  <1>4. By("npc")' = {} /\ By("user")' = {}
    BY <1>1 DEF By
  <1>5. AppType'
    <2>1. requests' \in SUBSET Request
      BY <1>1 DEF IInv, TypeOK, Requests, Request
    <2>2. messages' \in Seq(Message) /\ Len(messages') <= 2 * MaxMessages
      BY <1>1, BrowserAssumption
    <2>3. overlapped' \in BOOLEAN
      BY <1>1
    <2> QED
      BY <1>1, <2>1, <2>2, <2>3 DEF AppType
  <1>6. HookType'
    <2>1. 0 \in 0 .. MaxReconnectAttempts
      BY BrowserAssumption
    <2> QED
      BY <1>1, <1>2, <2>1 DEF HookType
  <1>7. StatusTellsTruth'
    BY <1>1, <1>2, <1>3 DEF StatusTellsTruth
  <1>8. ScreenShowsSelected'
    BY <1>1 DEF ScreenShowsSelected
  <1>9. AnswersAreAsked'
    <2>1. Cardinality(By("npc"))' = 0 /\ Written' = 0
      BY <1>4, FS_EmptySet DEF Written
    <2> QED
      BY <1>2, <2>1, BrowserAssumption DEF AnswersAreAsked
  <1>10. ProfilesAskedFor'
    BY <1>1 DEF ProfilesAskedFor, Requests
  <1>11. SocketOK' /\ TypingMeansAnswerDue'
    BY <1>1, <1>2 DEF SocketOK, Paired, TypingMeansAnswerDue
  <1>12. TypeOK'
    BY <1>5, <1>6 DEF TypeOK, AppType, HookType
  <1> QED
    BY <1>7, <1>8, <1>9, <1>10, <1>11, <1>12 DEF IInv

LEMMA TimerFiresIInv ==
  ASSUME IInv, TimerFires
  PROVE  IInv'
  <1>1. timer /\ target \in Npcs /\ Connect(target) /\ UNCHANGED <<app, typing, attempts>>
    BY DEF TimerFires, IInv, TypeOK
  <1>2. page = "shown" /\ page' = "shown"
    BY <1>1 DEF IInv, TypeOK, StatusTellsTruth, app
  <1>3. socket # None /\ socket.phase = "closed" /\ target = selected /\ selected # None
    BY <1>1, <1>2 DEF IInv, SocketOK, StatusTellsTruth
  <1>4. /\ timer' = FALSE /\ wanted' = TRUE /\ target' = target /\ status' = "connecting"
        /\ stale' \in SUBSET Socket /\ \A s \in stale' : ~s.heard
        /\ socket' \in Socket /\ socket' # None
        /\ socket'.npc = target /\ socket'.phase = "connecting" /\ socket'.heard
        /\ socket'.due = 0 /\ socket'.frames = <<>>
        /\ Coming' = 0
    BY <1>1, Connected
  <1>5. ~typing /\ ~typing'
    BY <1>1, <1>2, <1>3 DEF IInv, TypingMeansAnswerDue
  <1>6. AppType' /\ ScreenShowsSelected' /\ ProfilesAskedFor' /\ AnswersAreAsked'
    <2>1. Coming' \in Nat /\ Coming' <= Coming
      BY <1>4, ComingType
    <2>9. messages' = messages
      BY <1>1 DEF app
    <2> QED
      BY <1>1, <2>1, <2>9, AppSame, AnswersKept
  <1>7. HookType'
    <2>1. attempts' \in 0 .. MaxReconnectAttempts /\ typing' \in BOOLEAN
      BY <1>1 DEF IInv, TypeOK
    <2> QED
      BY <1>1, <1>4, <2>1 DEF HookType
  <1>8. StatusTellsTruth'
    BY <1>1, <1>2, <1>3, <1>4 DEF StatusTellsTruth, app
  <1>9. SocketOK' /\ TypingMeansAnswerDue'
    BY <1>1, <1>2, <1>3, <1>4, <1>5 DEF SocketOK, Paired, TypingMeansAnswerDue, app
  <1>10. TypeOK'
    BY <1>6, <1>7 DEF TypeOK, AppType, HookType
  <1> QED
    BY <1>6, <1>8, <1>9, <1>10 DEF IInv

(* A socket that loses or has nothing on its way.                          *)
LEMMA Emptied ==
  ASSUME IInv, socket # None, NEW p \in {"connecting", "open", "closing", "closed"},
         socket' = [socket EXCEPT !.phase = p, !.due = 0, !.frames = <<>>]
  PROVE  /\ socket' \in Socket /\ socket' # None
         /\ socket'.npc = socket.npc /\ socket'.heard = socket.heard /\ socket'.phase = p
         /\ socket'.due = 0 /\ socket'.frames = <<>>
         /\ Coming' = 0
  <1>1. socket \in Socket /\ <<>> \in Seq(Frame) /\ 0 \in 0 .. MaxMessages
    BY BrowserAssumption DEF IInv, TypeOK
  <1>2. /\ socket' \in Socket
        /\ socket'.npc = socket.npc /\ socket'.heard = socket.heard /\ socket'.phase = p
        /\ socket'.due = 0 /\ socket'.frames = <<>>
    BY <1>1 DEF Socket
  <1>3. socket' # None
    BY <1>2, BrowserAssumption
  <1>4. Cardinality(Completes(<<>>)) = 0
    BY <1>1, CompletesCount
  <1>5. Coming' = 0
    BY <1>2, <1>3, <1>4 DEF Coming
  <1> QED
    BY <1>2, <1>3, <1>5

LEMMA ClosesIInv ==
  ASSUME IInv, Closes
  PROVE  IInv'
  <1>1. /\ socket # None /\ OnClose /\ UNCHANGED <<app, wanted, target, stale>>
        /\ socket' = [socket EXCEPT !.phase = "closed", !.due = 0, !.frames = <<>>]
    BY DEF Closes
  <1>2. /\ socket' \in Socket /\ socket' # None
        /\ socket'.npc = socket.npc /\ socket'.heard = socket.heard
        /\ socket'.phase = "closed" /\ socket'.due = 0 /\ socket'.frames = <<>>
        /\ Coming' = 0
    BY <1>1, Emptied
  <1>3. /\ page = "shown" /\ page' = "shown" /\ selected' = selected /\ selected # None
        /\ socket.npc = selected /\ socket.heard /\ target = selected
        /\ \A s \in stale : ~s.heard
    BY <1>1 DEF IInv, TypeOK, StatusTellsTruth, SocketOK, app
  <1>4. AppType' /\ ScreenShowsSelected' /\ ProfilesAskedFor' /\ AnswersAreAsked'
    <2>1. Coming' \in Nat /\ Coming' <= Coming
      BY <1>2, ComingType
    <2>9. messages' = messages
      BY <1>1 DEF app
    <2> QED
      BY <1>1, <2>1, <2>9, AppSame, AnswersKept
  <1>5. HookType'
    <2>1. attempts' \in 0 .. MaxReconnectAttempts
      BY <1>1, BrowserAssumption DEF OnClose, IInv, TypeOK
    <2>2. timer' \in BOOLEAN
      BY <1>1 DEF OnClose, IInv, TypeOK
    <2>3. /\ status' \in {"disconnected", "connecting", "connected"}
          /\ typing' \in BOOLEAN /\ wanted' \in BOOLEAN
          /\ target' \in Npcs \cup {None} /\ stale' \in SUBSET Socket
      BY <1>1 DEF OnClose, IInv, TypeOK
    <2> QED
      BY <1>2, <2>1, <2>2, <2>3 DEF HookType
  <1>6. StatusTellsTruth'
    BY <1>1, <1>2, <1>3 DEF StatusTellsTruth, OnClose
  <1>7. SocketOK' /\ TypingMeansAnswerDue'
    BY <1>1, <1>2, <1>3 DEF SocketOK, Paired, TypingMeansAnswerDue, OnClose
  <1>8. TypeOK'
    BY <1>4, <1>5 DEF TypeOK, AppType, HookType
  <1> QED
    BY <1>4, <1>6, <1>7, <1>8 DEF IInv

LEMMA StartsToCloseIInv ==
  ASSUME IInv, StartsToClose
  PROVE  IInv'
  <1>1. /\ socket # None /\ socket.phase = "open"
        /\ UNCHANGED <<app, status, typing, attempts, timer, wanted, target, stale>>
        /\ socket' = [socket EXCEPT !.phase = "closing", !.due = 0, !.frames = <<>>]
    BY DEF StartsToClose
  <1>2. /\ socket' \in Socket /\ socket' # None
        /\ socket'.npc = socket.npc /\ socket'.heard = socket.heard
        /\ socket'.phase = "closing" /\ socket'.due = 0 /\ socket'.frames = <<>>
        /\ Coming' = 0
    BY <1>1, Emptied
  <1>3. /\ page = "shown" /\ page' = "shown" /\ selected' = selected /\ selected # None
        /\ socket.npc = selected /\ socket.heard /\ target = selected
        /\ status = "connected" /\ ~timer /\ \A s \in stale : ~s.heard
    BY <1>1 DEF IInv, TypeOK, StatusTellsTruth, SocketOK, app
  <1>4. AppType' /\ ScreenShowsSelected' /\ ProfilesAskedFor' /\ AnswersAreAsked'
    <2>1. Coming' \in Nat /\ Coming' <= Coming
      BY <1>2, ComingType
    <2>9. messages' = messages
      BY <1>1 DEF app
    <2> QED
      BY <1>1, <2>1, <2>9, AppSame, AnswersKept
  <1>5. HookType'
    BY <1>1, <1>2 DEF HookType, IInv, TypeOK
  <1>6. StatusTellsTruth'
    BY <1>1, <1>2, <1>3 DEF StatusTellsTruth
  <1>7. SocketOK' /\ TypingMeansAnswerDue'
    BY <1>1, <1>2, <1>3 DEF SocketOK, Paired, TypingMeansAnswerDue
  <1>8. TypeOK'
    BY <1>4, <1>5 DEF TypeOK, AppType, HookType
  <1> QED
    BY <1>4, <1>6, <1>7, <1>8 DEF IInv

LEMMA StaleClosesIInv ==
  ASSUME IInv, NEW s \in stale, StaleCloses(s)
  PROVE  IInv'
  <1>1. /\ stale' = stale \ {s} /\ ~s.heard
        /\ UNCHANGED <<app, status, typing, attempts, timer, wanted, target, socket>>
    BY DEF StaleCloses, IInv, StatusTellsTruth
  <1>2. AppType' /\ ScreenShowsSelected' /\ ProfilesAskedFor' /\ AnswersAreAsked'
    <2>1. Coming' = Coming
      BY <1>1 DEF Coming
    <2>2. Coming' \in Nat /\ Coming' <= Coming
      BY <2>1, ComingType
    <2>9. messages' = messages
      BY <1>1 DEF app
    <2> QED
      BY <1>1, <2>2, <2>9, AppSame, AnswersKept
  <1>3. HookType'
    BY <1>1 DEF HookType, IInv, TypeOK
  <1>4. StatusTellsTruth' /\ SocketOK' /\ TypingMeansAnswerDue'
    BY <1>1 DEF IInv, StatusTellsTruth, SocketOK, TypingMeansAnswerDue, app
  <1>5. TypeOK'
    BY <1>2, <1>3 DEF TypeOK, AppType, HookType
  <1> QED
    BY <1>2, <1>4, <1>5 DEF IInv

LEMMA OpensIInv ==
  ASSUME IInv, Opens
  PROVE  IInv'
  <1> DEFINE hello == IF socket.npc \in Personas THEN <<>> ELSE <<"error">>
  <1>1. /\ socket # None /\ socket.phase = "connecting"
        /\ socket' = [socket EXCEPT !.phase = "open", !.frames = hello]
        /\ status' = "connected" /\ attempts' = 0
        /\ UNCHANGED <<app, typing, timer, wanted, target, stale>>
    BY DEF Opens
  <1>2. /\ page = "shown" /\ page' = "shown" /\ selected' = selected /\ selected # None
        /\ socket.npc = selected /\ socket.heard /\ target = selected
        /\ ~timer /\ ~typing /\ socket.due = 0 /\ \A s \in stale : ~s.heard
    BY <1>1 DEF IInv, TypeOK, StatusTellsTruth, TypingMeansAnswerDue, SocketOK, app
  <1>3. /\ hello \in Seq(Frame) /\ Paired(hello) /\ Completes(hello) = {}
    <2>1. CASE socket.npc \in Personas
      BY <2>1 DEF Paired, Completes
    <2>2. CASE socket.npc \notin Personas
      <3>1. <<"error">> \in Seq(Frame) /\ DOMAIN <<"error">> = {1} /\ <<"error">>[1] = "error"
        BY DEF Frame
      <3> QED
        BY <2>2, <3>1 DEF Paired, Completes
    <2> QED
      BY <2>1, <2>2
  <1> HIDE DEF hello
  <1>4. /\ socket' \in Socket
        /\ socket'.npc = socket.npc /\ socket'.heard = socket.heard
        /\ socket'.phase = "open" /\ socket'.due = 0 /\ socket'.frames = hello
    <2>1. socket \in Socket
      BY <1>1 DEF IInv, TypeOK
    <2> QED
      BY <1>1, <1>2, <1>3, <2>1 DEF Socket
  <1>5. socket' # None
    BY <1>4, BrowserAssumption
  <1>6. Coming' = 0
    <2>1. Cardinality(Completes(hello)) = 0
      BY <1>3, FS_EmptySet
    <2> QED
      BY <1>4, <1>5, <2>1 DEF Coming
  <1>7. AppType' /\ ScreenShowsSelected' /\ ProfilesAskedFor' /\ AnswersAreAsked'
    <2>1. Coming' \in Nat /\ Coming' <= Coming
      BY <1>6, ComingType
    <2>2. messages' = messages
      BY <1>1 DEF app
    <2> QED
      BY <1>1, <2>1, <2>2, AppSame, AnswersKept
  <1>8. HookType'
    <2>1. 0 \in 0 .. MaxReconnectAttempts
      BY BrowserAssumption
    <2> QED
      BY <1>1, <1>4, <2>1 DEF HookType, IInv, TypeOK
  <1>9. StatusTellsTruth'
    BY <1>1, <1>2, <1>4, <1>5 DEF StatusTellsTruth
  <1>10. SocketOK' /\ TypingMeansAnswerDue'
    BY <1>1, <1>2, <1>3, <1>4, <1>5 DEF SocketOK, TypingMeansAnswerDue
  <1>11. TypeOK'
    BY <1>7, <1>8 DEF TypeOK, AppType, HookType
  <1> QED
    BY <1>7, <1>9, <1>10, <1>11 DEF IInv

(* Only what is due and what is on its way changes on an open socket.      *)
LEMMA OpenSocketIInv ==
  ASSUME IInv, page = "shown", socket # None, socket.phase = "open",
         NEW d \in 0 .. MaxMessages, NEW f \in Seq(Frame), Paired(f),
         socket' = [socket EXCEPT !.due = d, !.frames = f],
         UNCHANGED <<page, selected, status, attempts, timer, wanted, target, stale>>,
         typing' \in BOOLEAN,
         typing' => d > 0 \/ \E i \in DOMAIN f : f[i] = "complete"
  PROVE  /\ HookType' /\ StatusTellsTruth' /\ SocketOK' /\ TypingMeansAnswerDue'
         /\ Coming' = d + Cardinality(Completes(f))
  <1>1. /\ socket' \in Socket
        /\ socket'.npc = socket.npc /\ socket'.heard = socket.heard
        /\ socket'.phase = "open" /\ socket'.due = d /\ socket'.frames = f
    BY DEF IInv, TypeOK, Socket
  <1>2. socket' # None
    BY <1>1, BrowserAssumption
  <1>3. HookType'
    BY <1>1 DEF HookType, IInv, TypeOK
  <1>4. StatusTellsTruth'
    BY <1>1, <1>2 DEF StatusTellsTruth, IInv
  <1>5. SocketOK'
    BY <1>1, <1>2 DEF SocketOK, IInv
  <1>6. TypingMeansAnswerDue'
    BY <1>1, <1>2 DEF TypingMeansAnswerDue
  <1>7. Coming' = d + Cardinality(Completes(f))
    BY <1>1, <1>2 DEF Coming
  <1> QED
    BY <1>3, <1>4, <1>5, <1>6, <1>7

(* What is known of an open socket.                                        *)
LEMMA OpenSocket ==
  ASSUME IInv, socket # None, socket.phase = "open"
  PROVE  /\ page = "shown" /\ socket \in Socket /\ socket.npc = selected /\ selected \in Npcs
         /\ socket.frames \in Seq(Frame) /\ Paired(socket.frames)
         /\ socket.due \in 0 .. MaxMessages /\ socket.due \in Nat
         /\ Coming = socket.due + Cardinality(Completes(socket.frames))
         /\ Cardinality(Completes(socket.frames)) \in Nat
         /\ Coming <= Written /\ Written \in Nat
         /\ typing => socket.due > 0 \/ \E i \in DOMAIN socket.frames : socket.frames[i] = "complete"
         /\ \A d \in 0 .. MaxMessages, f \in Seq(Frame) :
              LET s == [socket EXCEPT !.due = d, !.frames = f]
              IN  /\ s = [s EXCEPT !.due = d] /\ s = [s EXCEPT !.frames = f]
                  /\ f = socket.frames => s = [socket EXCEPT !.due = d]
                  /\ d = socket.due => s = [socket EXCEPT !.frames = f]
  <1>1. /\ page = "shown" /\ socket \in Socket /\ socket.npc = selected
        /\ Paired(socket.frames)
    BY DEF IInv, TypeOK, StatusTellsTruth, SocketOK
  <1>2. /\ selected \in Npcs /\ socket.frames \in Seq(Frame)
        /\ socket.due \in 0 .. MaxMessages /\ socket.due \in Nat
    BY <1>1, BrowserAssumption DEF Socket
  <1>3. Cardinality(Completes(socket.frames)) \in Nat
    BY <1>2, CompletesCount
  <1>4. Coming = socket.due + Cardinality(Completes(socket.frames))
    BY DEF Coming
  <1>5. Coming <= Written /\ Written \in Nat
    <2>1. messages \in Seq(Message)
      BY DEF IInv, TypeOK
    <2>2. Cardinality(Sent(messages, "npc")) \in Nat /\ Cardinality(Sent(messages, "user")) \in Nat
      BY <2>1, SentCount
    <2>3. Cardinality(By("npc")) \in Nat /\ Written \in Nat
      BY <2>2 DEF By, Written, Sent
    <2>4. Cardinality(By("npc")) + Coming <= Written
      BY DEF IInv, AnswersAreAsked
    <2> QED
      BY <2>3, <2>4, ComingType
  <1>6. typing => socket.due > 0 \/ \E i \in DOMAIN socket.frames : socket.frames[i] = "complete"
    BY <1>1 DEF IInv, TypingMeansAnswerDue
  <1>7. \A d \in 0 .. MaxMessages, f \in Seq(Frame) :
          LET s == [socket EXCEPT !.due = d, !.frames = f]
          IN  /\ s = [s EXCEPT !.due = d] /\ s = [s EXCEPT !.frames = f]
              /\ f = socket.frames => s = [socket EXCEPT !.due = d]
              /\ d = socket.due => s = [socket EXCEPT !.frames = f]
    BY <1>1 DEF Socket
  <1> QED
    BY <1>1, <1>2, <1>3, <1>4, <1>5, <1>6, <1>7

LEMMA SubmitIInv ==
  ASSUME IInv, Submit
  PROVE  IInv'
  <1> DEFINE m == [from |-> "user", npc |-> selected]
  <1>1. /\ page = "shown" /\ selected \in Npcs /\ Written < MaxMessages
        /\ messages' = Append(messages, m)
        /\ UNCHANGED <<page, selected, profile, requests, overlapped,
                       status, attempts, timer, wanted, target, stale>>
    BY DEF Submit, IInv, TypeOK
  <1>2. m \in Message /\ m.npc = selected /\ m.from = "user"
    BY <1>1 DEF Message
  <1> HIDE DEF m
  <1>3. /\ HookType' /\ StatusTellsTruth' /\ SocketOK' /\ TypingMeansAnswerDue'
        /\ Coming' \in Nat /\ Coming' <= Coming + 1
    <2>1. CASE socket # None /\ socket.phase = "open"
      <3>1. /\ socket' = [socket EXCEPT !.due = @ + 1] /\ typing' = TRUE
        BY <2>1 DEF Submit
      <3>2. /\ socket.frames \in Seq(Frame) /\ Paired(socket.frames)
            /\ socket.due + 1 \in 0 .. MaxMessages /\ socket.due + 1 > 0
        <4>1. /\ socket.due \in Nat /\ Coming <= Written /\ Written \in Nat
              /\ Coming = socket.due + Cardinality(Completes(socket.frames))
              /\ Cardinality(Completes(socket.frames)) \in Nat
              /\ socket.frames \in Seq(Frame) /\ Paired(socket.frames)
          BY <2>1, OpenSocket
        <4>2. socket.due <= Written
          BY <4>1
        <4>3. MaxMessages \in Nat /\ Written < MaxMessages
          BY <1>1, BrowserAssumption
        <4>4. socket.due + 1 \in 0 .. MaxMessages /\ socket.due + 1 > 0
          BY <4>1, <4>2, <4>3
        <4> QED
          BY <4>1, <4>4
      <3>3. socket' = [socket EXCEPT !.due = socket.due + 1, !.frames = socket.frames]
        BY <2>1, <3>1, <3>2, OpenSocket
      <3>4. /\ HookType' /\ StatusTellsTruth' /\ SocketOK' /\ TypingMeansAnswerDue'
            /\ Coming' = (socket.due + 1) + Cardinality(Completes(socket.frames))
        BY <1>1, <2>1, <3>1, <3>2, <3>3, OpenSocketIInv
      <3>5. /\ socket.due \in Nat /\ Cardinality(Completes(socket.frames)) \in Nat
            /\ Coming = socket.due + Cardinality(Completes(socket.frames))
        BY <2>1, OpenSocket
      <3>6. Coming' \in Nat /\ Coming' <= Coming + 1
        BY <3>4, <3>5
      <3> QED
        BY <3>4, <3>6
    <2>2. CASE ~(socket # None /\ socket.phase = "open")
      <3>1. UNCHANGED <<socket, typing>>
        BY <2>2 DEF Submit
      <3>2. HookType' /\ StatusTellsTruth' /\ SocketOK' /\ TypingMeansAnswerDue'
        BY <1>1, <3>1 DEF HookType, IInv, TypeOK, StatusTellsTruth, SocketOK, TypingMeansAnswerDue
      <3>3. Coming' = Coming
        BY <3>1 DEF Coming
      <3> QED
        BY <3>2, <3>3, ComingType
    <2> QED
      BY <2>1, <2>2
  <1>4. AppType' /\ ScreenShowsSelected' /\ ProfilesAskedFor' /\ AnswersAreAsked'
    BY <1>1, <1>2, <1>3, MessageShown
  <1>5. TypeOK'
    BY <1>3, <1>4 DEF TypeOK, AppType, HookType
  <1> QED
    BY <1>3, <1>4, <1>5 DEF IInv

LEMMA DeliveryIInv ==
  ASSUME IInv, Delivery
  PROVE  IInv'
  <1> DEFINE f == socket.frames
             m == [from |-> "npc", npc |-> selected]
  <1>1. /\ socket # None /\ socket.phase = "open" /\ f # <<>>
        /\ typing' = (Head(f) = "token")
        /\ IF Head(f) = "complete" THEN messages' = Append(messages, [from |-> "npc", npc |-> socket.npc])
                                   ELSE UNCHANGED messages
        /\ UNCHANGED <<page, selected, profile, requests, overlapped,
                       status, attempts, timer, wanted, target, stale>>
        /\ socket' = [socket EXCEPT !.frames = Tail(@)]
    BY DEF Delivery, OnMessage, HandleNpcResponse
  <1>2. /\ page = "shown" /\ socket.npc = selected /\ selected \in Npcs
        /\ f \in Seq(Frame) /\ Paired(f) /\ socket.due \in 0 .. MaxMessages
        /\ socket.due \in Nat /\ Coming = socket.due + Cardinality(Completes(f))
    BY <1>1, OpenSocket
  <1>3. /\ Head(f) \in Frame /\ Tail(f) \in Seq(Frame) /\ Paired(Tail(f))
        /\ Cardinality(Completes(f)) =
             Cardinality(Completes(Tail(f))) + (IF Head(f) = "complete" THEN 1 ELSE 0)
        /\ Head(f) = "token" => \E i \in DOMAIN Tail(f) : Tail(f)[i] = "complete"
        /\ Cardinality(Completes(Tail(f))) \in Nat
    BY <1>1, <1>2, TailDelivered, CompletesCount
  <1>4. socket' = [socket EXCEPT !.due = socket.due, !.frames = Tail(f)]
    BY <1>1, <1>2, <1>3, OpenSocket
  <1>5. typing' \in BOOLEAN
    BY <1>1
  <1>6. /\ HookType' /\ StatusTellsTruth' /\ SocketOK' /\ TypingMeansAnswerDue'
        /\ Coming' = socket.due + Cardinality(Completes(Tail(f)))
    BY <1>1, <1>2, <1>3, <1>4, <1>5, OpenSocketIInv
  <1>7. m \in Message /\ m.npc = selected /\ m.from = "npc"
    BY <1>2 DEF Message
  <1>8. AppType' /\ ScreenShowsSelected' /\ ProfilesAskedFor' /\ AnswersAreAsked'
    <2>1. CASE Head(f) = "complete"
      <3>1. messages' = Append(messages, m)
        BY <1>1, <1>2, <2>1
      <3>2. Coming' \in Nat /\ Coming' + 1 <= Coming
        BY <1>2, <1>3, <1>6, <2>1
      <3> HIDE DEF m
      <3> QED
        BY <1>1, <1>7, <3>1, <3>2, MessageShown
    <2>2. CASE Head(f) # "complete"
      <3>1. messages' = messages /\ UNCHANGED app
        BY <1>1, <2>2 DEF app
      <3>2. Coming' \in Nat /\ Coming' <= Coming
        BY <1>2, <1>3, <1>6, <2>2
      <3> QED
        BY <3>1, <3>2, AppSame, AnswersKept
    <2> QED
      BY <2>1, <2>2
  <1>9. TypeOK'
    BY <1>6, <1>8 DEF TypeOK, AppType, HookType
  <1> QED
    BY <1>6, <1>8, <1>9 DEF IInv

LEMMA ServerRepliesIInv ==
  ASSUME IInv, ServerReplies
  PROVE  IInv'
  <1> DEFINE f == socket.frames
  <1>1. PICK reply \in {<<"token", "complete">>, <<"complete">>} :
          socket' = [socket EXCEPT !.due = @ - 1, !.frames = @ \o reply]
    BY DEF ServerReplies
  <1>2. /\ socket # None /\ socket.phase = "open" /\ socket.due > 0
        /\ UNCHANGED <<app, status, typing, attempts, timer, wanted, target, stale>>
    BY DEF ServerReplies
  <1>3. /\ page = "shown" /\ f \in Seq(Frame) /\ Paired(f)
        /\ socket.due \in 0 .. MaxMessages /\ socket.due \in Nat
        /\ Coming = socket.due + Cardinality(Completes(f))
        /\ Cardinality(Completes(f)) \in Nat
    BY <1>2, OpenSocket
  <1>4. /\ f \o reply \in Seq(Frame) /\ Paired(f \o reply)
        /\ Cardinality(Completes(f \o reply)) = Cardinality(Completes(f)) + 1
        /\ \E i \in DOMAIN (f \o reply) : (f \o reply)[i] = "complete"
    BY <1>3, ReplyAppended
  <1>5. socket.due - 1 \in 0 .. MaxMessages
    BY <1>2, <1>3, BrowserAssumption
  <1>6. socket' = [socket EXCEPT !.due = socket.due - 1, !.frames = f \o reply]
    BY <1>1
  <1>7. typing' \in BOOLEAN /\ UNCHANGED page /\ UNCHANGED selected
    BY <1>2 DEF IInv, TypeOK, app
  <1>8. /\ HookType' /\ StatusTellsTruth' /\ SocketOK' /\ TypingMeansAnswerDue'
        /\ Coming' = (socket.due - 1) + Cardinality(Completes(f \o reply))
    BY <1>2, <1>3, <1>4, <1>5, <1>6, <1>7, OpenSocketIInv
  <1>9. Coming' \in Nat /\ Coming' <= Coming
    BY <1>2, <1>3, <1>4, <1>8
  <1>10. AppType' /\ ScreenShowsSelected' /\ ProfilesAskedFor' /\ AnswersAreAsked'
    <2>1. messages' = messages
      BY <1>2 DEF app
    <2> QED
      BY <1>2, <1>9, <2>1, AppSame, AnswersKept
  <1>11. TypeOK'
    BY <1>8, <1>10 DEF TypeOK, AppType, HookType
  <1> QED
    BY <1>8, <1>10, <1>11 DEF IInv

(* An answer of the server to a fetch that leaves the page as it is, or    *)
(* shows a profile.                                                        *)
LEMMA AnsweredIInv ==
  ASSUME IInv, NEW r \in requests, Answered(r), UNCHANGED <<page, hook>>,
         \/ UNCHANGED profile
         \/ r.what = "profile" /\ profile' = r.npc
  PROVE  IInv'
  <1>1. /\ requests' = requests \ {r}
        /\ UNCHANGED <<page, selected, messages, overlapped, status, typing, attempts, timer,
                       wanted, target, socket, stale>>
    BY DEF Answered, hook
  <1>2. AppType'
    <2>1. r \in Request /\ profile' \in Npcs \cup {None}
      BY DEF IInv, TypeOK, Request
    <2> QED
      BY <1>1, <2>1 DEF AppType, IInv, TypeOK
  <1>3. HookType'
    BY <1>1 DEF HookType, IInv, TypeOK
  <1>4. StatusTellsTruth' /\ SocketOK' /\ TypingMeansAnswerDue'
    BY <1>1 DEF IInv, StatusTellsTruth, SocketOK, TypingMeansAnswerDue
  <1>5. ProfilesAskedFor'
    BY <1>1 DEF IInv, ProfilesAskedFor
  <1>6. ScreenShowsSelected'
    <2>1. ~overlapped' => profile' = selected'
      BY <1>1 DEF IInv, ScreenShowsSelected, ProfilesAskedFor
    <2>2. By("npc")' = By("npc")
      BY <1>1 DEF By
    <2> QED
      BY <1>1, <2>1, <2>2 DEF IInv, ScreenShowsSelected
  <1>7. AnswersAreAsked'
    <2>1. Coming' = Coming
      BY <1>1 DEF Coming
    <2>2. Coming' \in Nat /\ Coming' <= Coming
      BY <2>1, ComingType
    <2> QED
      BY <1>1, <2>2, AnswersKept
  <1>8. TypeOK'
    BY <1>2, <1>3 DEF TypeOK, AppType, HookType
  <1> QED
    BY <1>4, <1>5, <1>6, <1>7, <1>8 DEF IInv

LEMMA BlankIInv ==
  ASSUME IInv, NEW r \in requests, Answered(r), Blank
  PROVE  IInv'
  <1>1. /\ requests' = requests \ {r} /\ page' = "blank" /\ wanted' = FALSE
        /\ timer' = FALSE /\ stale' = GivenUp /\ socket' = None
        /\ UNCHANGED <<selected, messages, overlapped, profile, status, typing, attempts, target>>
    BY DEF Answered, Blank, Cleanup
  <1>2. stale' \in SUBSET Socket /\ \A s \in stale' : ~s.heard
    BY <1>1, GivenUpSilenced
  <1>3. AppType'
    BY <1>1 DEF AppType, IInv, TypeOK
  <1>4. HookType'
    BY <1>1, <1>2 DEF HookType, IInv, TypeOK
  <1>5. StatusTellsTruth' /\ SocketOK' /\ TypingMeansAnswerDue'
    BY <1>1, <1>2 DEF StatusTellsTruth, SocketOK, TypingMeansAnswerDue
  <1>6. ProfilesAskedFor'
    BY <1>1 DEF IInv, ProfilesAskedFor
  <1>7. ScreenShowsSelected'
    <2>1. By("npc")' = By("npc")
      BY <1>1 DEF By
    <2> QED
      BY <1>1, <2>1 DEF IInv, ScreenShowsSelected
  <1>8. AnswersAreAsked'
    <2>1. Coming' = 0
      BY <1>1 DEF Coming
    <2>2. Coming' \in Nat /\ Coming' <= Coming
      BY <2>1, ComingType
    <2> QED
      BY <1>1, <2>2, AnswersKept
  <1>9. TypeOK'
    BY <1>3, <1>4 DEF TypeOK, AppType, HookType
  <1> QED
    BY <1>5, <1>6, <1>7, <1>8, <1>9 DEF IInv

LEMMA StutterIInv ==
  ASSUME IInv, UNCHANGED vars
  PROVE  IInv'
  <1>1. UNCHANGED app /\ UNCHANGED hook
    BY DEF vars
  <1>2. AppType' /\ ScreenShowsSelected' /\ ProfilesAskedFor' /\ AnswersAreAsked'
    <2>1. Coming' = Coming
      BY <1>1 DEF Coming, hook
    <2>2. Coming' \in Nat /\ Coming' <= Coming
      BY <2>1, ComingType
    <2>3. messages' = messages
      BY <1>1 DEF app
    <2> QED
      BY <1>1, <2>2, <2>3, AppSame, AnswersKept
  <1>3. HookType'
    BY <1>1 DEF HookType, IInv, TypeOK, hook
  <1>4. StatusTellsTruth' /\ SocketOK' /\ TypingMeansAnswerDue'
    BY <1>1 DEF IInv, StatusTellsTruth, SocketOK, TypingMeansAnswerDue, app, hook
  <1>5. TypeOK'
    BY <1>2, <1>3 DEF TypeOK, AppType, HookType
  <1> QED
    BY <1>2, <1>4, <1>5 DEF IInv

LEMMA NextIInv == IInv /\ [Next]_vars => IInv'
  <1> SUFFICES ASSUME IInv, [Next]_vars
               PROVE  IInv'
    OBVIOUS
  <1>1. ASSUME NEW n \in Npcs, SelectNpc(n) PROVE IInv'
    BY <1>1, SelectNpcIInv
  <1>2. CASE Submit
    BY <1>2, SubmitIInv
  <1>3. CASE Opens
    BY <1>3, OpensIInv
  <1>4. CASE StartsToClose
    BY <1>4, StartsToCloseIInv
  <1>5. CASE Closes
    BY <1>5, ClosesIInv
  <1>6. ASSUME NEW s \in stale, StaleCloses(s) PROVE IInv'
    BY <1>6, StaleClosesIInv
  <1>7. CASE TimerFires
    BY <1>7, TimerFiresIInv
  <1>8. CASE Delivery
    BY <1>8, DeliveryIInv
  <1>9. CASE ServerReplies
    BY <1>9, ServerRepliesIInv
  <1>10. ASSUME NEW r \in requests, FetchSucceeds(r) PROVE IInv'
    <2>1. CASE Blank
      BY <1>10, <2>1, BlankIInv DEF FetchSucceeds
    <2>2. CASE ~Blank
      <3>1. /\ Answered(r) /\ UNCHANGED <<page, hook>>
            /\ \/ UNCHANGED profile
               \/ r.what = "profile" /\ profile' = r.npc
        BY <1>10, <2>2 DEF FetchSucceeds
      <3> QED
        BY <3>1, AnsweredIInv
    <2> QED
      BY <2>1, <2>2
  <1>11. ASSUME NEW r \in requests, FetchFails(r) PROVE IInv'
    BY <1>11, AnsweredIInv DEF FetchFails
  <1>12. CASE UNCHANGED vars
    BY <1>12, StutterIInv
  <1> QED
    BY <1>1, <1>2, <1>3, <1>4, <1>5, <1>6, <1>7, <1>8, <1>9, <1>10, <1>11, <1>12 DEF Next

-----------------------------------------------------------------------------
(* The state of the page and of its hook has its type: attempts never      *)
(* exceed MAX_RECONNECT_ATTEMPTS and no more answers are due than messages *)
(* were sent (useWebSocket.ts:47-160).                                     *)
THEOREM TypeCorrect == Spec => []TypeOK
  <1>1. IInv => TypeOK
    BY DEF IInv
  <1> QED
    BY <1>1, InitIInv, NextIInv, PTL DEF Spec

(* Whatever is selected, lost, given up or broken in whatever order, the   *)
(* status on the screen tells the truth about the one socket that is left. *)
THEOREM StatusAlwaysTrue == Spec => []StatusTellsTruth
  <1>1. IInv => StatusTellsTruth
    BY DEF IInv
  <1> QED
    BY <1>1, InitIInv, NextIInv, PTL DEF Spec

(* The typing indicator is never shown on an open socket over which no     *)
(* answer is due or on its way (useWebSocket.ts:94-122).                   *)
THEOREM TypingAlwaysDue == Spec => []TypingMeansAnswerDue
  <1>1. IInv => TypingMeansAnswerDue
    BY DEF IInv
  <1> QED
    BY <1>1, InitIInv, NextIInv, PTL DEF Spec

(* What the page shows is about the selected NPC, and no answer comes      *)
(* before its question, for any number of messages (App.tsx:122-149).      *)
THEOREM ScreenAlwaysOfSelected == Spec => []ScreenShowsSelected
  <1>1. IInv => ScreenShowsSelected
    BY DEF IInv
  <1> QED
    BY <1>1, InitIInv, NextIInv, PTL DEF Spec
=============================================================================
