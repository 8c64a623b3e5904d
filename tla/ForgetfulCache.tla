--------------------------- MODULE ForgetfulCache ---------------------------
(***************************************************************************)
(* What the semantic cache promises its callers (src/rag/cache.py,         *)
(* lines 44-51 and the docstrings of get, set and invalidate): it may      *)
(* forget any answer at any time, but what it gives is an answer stored    *)
(* for the same NPC, close enough to the question and the closest of those *)
(* it still has; and an invalidation that has ended took away all that was *)
(* there when it began. An answer that cannot be read (Unreadable) can     *)
(* come between: it hides those that are no closer than itself, and lends  *)
(* its closeness to one that is not close enough by itself. Module         *)
(* SemanticCache, which keeps an index and a hash per entry in Redis and   *)
(* updates them in separate calls, implements it.                          *)
(***************************************************************************)
EXTENDS Integers

CONSTANTS Npcs, Queries, Entries, Clients, Owner, Sim, Threshold, Unreadable, None, Raised

VARIABLES
  live,   \* the entries the cache can answer with
  used,   \* the ids given to entries so far
  work    \* work[c]: the operation c is in, and its last answer

vars == <<live, used, work>>

LiveOf(n) == {e \in live : Owner[e] = n}

CloseEnough(q, e) == Sim[q][e] > 0 /\ Sim[q][e] >= Threshold

Rest(n, q, answer) == [op |-> "idle", npc |-> n, query |-> q, opened |-> {}, entry |-> None,
                       answer |-> answer]

Init ==
  /\ live = {} /\ used = {}
  /\ \E n \in Npcs, q \in Queries :
       work = [c \in Clients |-> Rest(n, q, None)]

Idle(c) == work[c].op = "idle"

End(c, answer) ==
  work' = [work EXCEPT ![c] = Rest(work[c].npc, work[c].query, answer)]

Open(c, op, n, q, e) ==
  work' = [work EXCEPT ![c] = [op |-> op, npc |-> n, query |-> q, opened |-> LiveOf(n),
                               entry |-> e, answer |-> None]]

OpenLookup(c) ==
  /\ Idle(c)
  /\ \E n \in Npcs, q \in Queries : Open(c, "get", n, q, None)
  /\ UNCHANGED <<live, used>>

(* A lookup in an empty cache is over at once. *)
MissAtOnce(c) ==
  /\ Idle(c)
  /\ \E n \in Npcs, q \in Queries :
       /\ LiveOf(n) = {}
       /\ work' = [work EXCEPT ![c] = Rest(n, q, None)]
  /\ UNCHANGED <<live, used>>

(* What makes e an answer: it is the entry g that decides the lookup, or g *)
(* is closer and cannot be read. *)
AnswersFor(e, g, q) ==
  /\ e \notin Unreadable
  /\ g = e \/ (g \in Unreadable /\ Sim[q][e] > 0 /\ Sim[q][e] < Sim[q][g])

(* Of the entries there when the lookup began, one that is close enough    *)
(* and that none of those still there beats decides it.                    *)
Hit(c) ==
  /\ work[c].op = "get"
  /\ \E e, g \in work[c].opened :
       /\ AnswersFor(e, g, work[c].query)
       /\ CloseEnough(work[c].query, g)
       /\ \A f \in work[c].opened \cap live : Sim[work[c].query][f] <= Sim[work[c].query][g]
       /\ End(c, e)
  /\ UNCHANGED <<live, used>>

(* Nothing that was there all the time would have done, or one that cannot *)
(* be read is as close.                                                    *)
Miss(c) ==
  /\ work[c].op = "get"
  /\ \A f \in work[c].opened \cap live :
       CloseEnough(work[c].query, f) =>
         \E g \in work[c].opened \cap Unreadable : Sim[work[c].query][g] >= Sim[work[c].query][f]
  /\ End(c, None)
  /\ UNCHANGED <<live, used>>

OpenStore(c) ==
  /\ Idle(c)
  /\ \E e \in Entries \ used :
       /\ used' = used \cup {e}
       /\ Open(c, "set", Owner[e], work[c].query, e)
  /\ UNCHANGED live

Store(c) ==
  /\ work[c].op = "set"
  /\ live' = live \cup {work[c].entry} \/ live' = live
  /\ End(c, None)
  /\ UNCHANGED used

OpenInvalidation(c) ==
  /\ Idle(c)
  /\ \E n \in Npcs : Open(c, "invalidate", n, work[c].query, None)
  /\ UNCHANGED <<live, used>>

EndInvalidation(c) ==
  /\ work[c].op = "invalidate"
  /\ live \ LiveOf(work[c].npc) \subseteq live' /\ live' \subseteq live
  /\ work[c].opened \cap live' = {}
  /\ End(c, None)
  /\ UNCHANGED used

(* Redis is unreachable: the operation raises in its caller. *)
Raise(c) ==
  /\ ~Idle(c)
  /\ End(c, Raised)
  /\ UNCHANGED <<live, used>>

Forget ==
  /\ live' \subseteq live
  /\ UNCHANGED <<used, work>>

Step(c) ==
  \/ OpenLookup(c) \/ MissAtOnce(c) \/ Hit(c) \/ Miss(c)
  \/ OpenStore(c) \/ Store(c)
  \/ OpenInvalidation(c) \/ EndInvalidation(c)
  \/ Raise(c)

Next == (\E c \in Clients : Step(c)) \/ Forget

Spec == Init /\ [][Next]_vars
=============================================================================
