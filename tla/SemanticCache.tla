---------------------------- MODULE SemanticCache ----------------------------
(***************************************************************************)
(* The semantic cache of src/rag/cache.py: an index set and one hash per   *)
(* entry in Redis, used by several callers at once. Every Redis call is an *)
(* await, so each action is the code from one call to the next; every call *)
(* may raise, and an entry's hash may expire at any moment.                *)
(*                                                                         *)
(* An entry id is "<npc>:<uuid>", so an id has one owner and is never      *)
(* given out twice. Sim[q][e] stands for the cosine similarity of query q  *)
(* with the embedding stored under e; one that cannot be computed (an      *)
(* embedding of another dimension or damaged, a zero vector) never wins    *)
(* and counts as 0. Unreadable are the entries whose response get cannot   *)
(* decode: set stores none, but what is in Redis may have been written or  *)
(* damaged by others, and the code is prepared for it.                     *)
(***************************************************************************)
EXTENDS Integers

CONSTANTS
  Npcs, Queries, Entries,
  Clients,     \* concurrent callers of the cache
  Owner,       \* the NPC in an entry's id
  Sim,         \* _cosine_similarity, scaled to integers
  Threshold,   \* the caller's or SEMANTIC_CACHE_THRESHOLD, on the same scale
  Unreadable,  \* entries whose stored response does not decode
  None,
  Raised       \* what a caller gets when the operation raises

ASSUME CacheAssumption ==
  /\ Npcs # {} /\ Queries # {}
  /\ None \notin Entries /\ Raised \notin Entries \cup {None}
  /\ Owner \in [Entries -> Npcs]
  /\ Sim \in [Queries -> [Entries -> Int]]
  /\ Threshold \in Int
  /\ Unreadable \subseteq Entries

VARIABLES
  index,      \* index[n]: the set under sem_cache:index:<n>
  present,    \* entries whose hash sem_cache:data:<e> exists
  volatile,   \* those of them that have a time to live
  used,       \* ids given out
  task        \* task[c]: the operation c is in and its locals

vars == <<index, present, volatile, used, task>>

(* best and level are get's best_response, known by its entry, and         *)
(* best_similarity; in an idle client best is what the last call gave, an  *)
(* entry, None or an exception. opened is history: what could be answered  *)
(* with when the operation began.                                          *)
Task == [pc : {"idle", "reading", "unlisting", "expiring", "adding", "deleting", "dropping"},
         npc : Npcs, query : Queries, todo : SUBSET Entries, entry : Entries \cup {None},
         best : Entries \cup {None, Raised}, level : Int, opened : SUBSET Entries]

TypeOK ==
  /\ index \in [Npcs -> SUBSET Entries]
  /\ used \in SUBSET Entries
  /\ present \in SUBSET used
  /\ volatile \in SUBSET present
  /\ task \in [Clients -> Task]

Blank(n, q) == [pc |-> "idle", npc |-> n, query |-> q, todo |-> {}, entry |-> None,
                best |-> None, level |-> 0, opened |-> {}]

Init ==
  /\ index = [n \in Npcs |-> {}]
  /\ used = {} /\ present = {} /\ volatile = {}
  /\ \E n \in Npcs, q \in Queries : task = [c \in Clients |-> Blank(n, q)]

(* What a lookup can find: listed, and its hash is there. *)
Live == {e \in present : e \in index[Owner[e]]}

LiveOf(n) == {e \in Live : Owner[e] = n}

Idle(c) == task[c].pc = "idle"

Set(c, t) == task' = [task EXCEPT ![c] = t]

Done(t, answer) == [Blank(t.npc, t.query) EXCEPT !.best = answer]

-----------------------------------------------------------------------------
(* get: the ids are listed; an empty index is a miss at once. *)
BeginGet(c, n, q) ==
  /\ Idle(c)
  /\ Set(c, IF index[n] = {} THEN Blank(n, q)
            ELSE [Blank(n, q) EXCEPT !.pc = "reading", !.todo = index[n],
                                     !.opened = LiveOf(n)])
  /\ UNCHANGED <<index, present, volatile, used>>

(* mutant: the best similarity is returned, not the response kept with it. *)
VerdictSimilarity(t) == IF t.level >= Threshold /\ t.best # None THEN t.level ELSE None

(* The best response so far is the answer when the best similarity reaches *)
(* the threshold. *)
Verdict(t) == IF t.level >= Threshold /\ t.best # None THEN t.best ELSE None

(* On to the next id of the loop, or to the return after it. *)
Advance(t) == IF t.todo = {} THEN Done(t, Verdict(t)) ELSE [t EXCEPT !.pc = "reading"]

(* mutant: the best so far is not looked at, so the last entry wins. *)
BetterLastWins(t, e) == Sim[t.query][e] > 0

Better(t, e) == Sim[t.query][e] > t.level

(* The similarity is kept before the response is decoded: an entry whose   *)
(* response does not decode leaves its similarity with the earlier one.    *)
Compared(t, e) ==
  IF Better(t, e)
    THEN [t EXCEPT !.todo = @ \ {e}, !.level = Sim[t.query][e],
                   !.best = IF e \in Unreadable THEN @ ELSE e]
    ELSE [t EXCEPT !.todo = @ \ {e}]

(* mutant: an entry below the threshold is taken for a dead one. *)
ReadEntryUnlistingStrangers(c, e) ==
  LET t == task[c]
  IN  /\ t.pc = "reading" /\ e \in t.todo
      /\ Set(c, IF e \notin present \/ Sim[t.query][e] < Threshold
                THEN [t EXCEPT !.pc = "unlisting", !.entry = e]
                ELSE Advance(Compared(t, e)))
      /\ UNCHANGED <<index, present, volatile, used>>

(* The hash of the next id is read and compared. *)
ReadEntry(c, e) ==
  LET t == task[c]
  IN  /\ t.pc = "reading" /\ e \in t.todo
      /\ Set(c, IF e \notin present THEN [t EXCEPT !.pc = "unlisting", !.entry = e]
                ELSE Advance(Compared(t, e)))
      /\ UNCHANGED <<index, present, volatile, used>>

(* mutant: the loop forgets to go on after the clean-up. *)
UnlistAgain(c) ==
  LET t == task[c]
  IN  /\ t.pc = "unlisting"
      /\ index' = [index EXCEPT ![t.npc] = @ \ {t.entry}]
      /\ Set(c, [t EXCEPT !.pc = "reading", !.entry = None])
      /\ UNCHANGED <<present, volatile, used>>

(* The hash has expired: the id is taken off the index. *)
Unlist(c) ==
  LET t == task[c]
  IN  /\ t.pc = "unlisting"
      /\ index' = [index EXCEPT ![t.npc] = @ \ {t.entry}]
      /\ Set(c, Advance([t EXCEPT !.todo = @ \ {t.entry}, !.entry = None]))
      /\ UNCHANGED <<present, volatile, used>>

-----------------------------------------------------------------------------
(* set: HSET under a fresh id, EXPIRE, SADD. *)
BeginSet(c, e) ==
  /\ Idle(c)
  /\ e \notin used
  /\ used' = used \cup {e}
  /\ present' = present \cup {e}
  /\ Set(c, [Blank(Owner[e], task[c].query) EXCEPT !.pc = "expiring", !.entry = e,
                                       !.opened = LiveOf(Owner[e])])
  /\ UNCHANGED <<index, volatile>>

SetTimeToLive(c) ==
  /\ task[c].pc = "expiring"
  /\ volatile' = volatile \cup {task[c].entry}
  /\ Set(c, [task[c] EXCEPT !.pc = "adding"])
  /\ UNCHANGED <<index, present, used>>

(* mutant: the id is listed before its hash has a time to live. *)
ListEntryEarly(c) ==
  /\ task[c].pc \in {"expiring", "adding"}
  /\ index' = [index EXCEPT ![task[c].npc] = @ \cup {task[c].entry}]
  /\ Set(c, Done(task[c], None))
  /\ UNCHANGED <<present, volatile, used>>

ListEntry(c) ==
  /\ task[c].pc = "adding"
  /\ index' = [index EXCEPT ![task[c].npc] = @ \cup {task[c].entry}]
  /\ Set(c, Done(task[c], None))
  /\ UNCHANGED <<present, volatile, used>>

-----------------------------------------------------------------------------
(* invalidate: the ids are listed, their hashes deleted one by one, then   *)
(* the index as a whole.                                                   *)
BeginInvalidate(c, n) ==
  /\ Idle(c)
  /\ Set(c, [Blank(n, task[c].query) EXCEPT
              !.pc = IF index[n] = {} THEN "dropping" ELSE "deleting",
              !.todo = index[n], !.opened = LiveOf(n)])
  /\ UNCHANGED <<index, present, volatile, used>>

DeleteEntry(c, e) ==
  LET t == task[c]
  IN  /\ t.pc = "deleting" /\ e \in t.todo
      /\ present' = present \ {e}
      /\ volatile' = volatile \ {e}
      /\ Set(c, [t EXCEPT !.todo = @ \ {e},
                          !.pc = IF t.todo = {e} THEN "dropping" ELSE "deleting"])
      /\ UNCHANGED <<index, used>>

DropIndex(c) ==
  /\ task[c].pc = "dropping"
  /\ index' = [index EXCEPT ![task[c].npc] = {}]
  /\ Set(c, Done(task[c], None))
  /\ UNCHANGED <<present, volatile, used>>

-----------------------------------------------------------------------------
(* A Redis call raises; nothing is caught, the caller gets the exception. *)
Raise(c) ==
  /\ ~Idle(c)
  /\ Set(c, Done(task[c], Raised))
  /\ UNCHANGED <<index, present, volatile, used>>

(* Redis expires a hash. *)
Lapse(e) ==
  /\ e \in volatile
  /\ present' = present \ {e}
  /\ volatile' = volatile \ {e}
  /\ UNCHANGED <<index, used, task>>

Begin(c) ==
  \/ \E n \in Npcs, q \in Queries : BeginGet(c, n, q)
  \/ \E e \in Entries : BeginSet(c, e)
  \/ \E n \in Npcs : BeginInvalidate(c, n)

Resume(c) ==
  \/ \E e \in Entries : ReadEntry(c, e) \/ DeleteEntry(c, e)
  \/ Unlist(c) \/ SetTimeToLive(c) \/ ListEntry(c) \/ DropIndex(c)

Next ==
  \/ \E c \in Clients : Begin(c) \/ Resume(c) \/ Raise(c)
  \/ \E e \in Entries : Lapse(e)

Spec == Init /\ [][Next]_vars

(* Redis answers in the end, and the loop resumes whoever was waiting. *)
LiveSpec == Spec /\ \A c \in Clients : WF_vars(Resume(c))

-----------------------------------------------------------------------------
(* Whatever can be found expires by itself in the end: an id is listed     *)
(* only once its hash has a time to live (cache.py:154-163), so that a set *)
(* cut short leaves a hash nobody finds, never an answer that stays.       *)
ListedEntriesExpire == Live \subseteq volatile

(* An entry whose hash is there loses its place in the index only to an    *)
(* invalidation of its NPC that is overtaken by the entry's own set        *)
(* (cache.py:178-186); the clean-up in get (cache.py:104-107), which acts  *)
(* on what it read an await ago, never takes one away.                     *)
UnlistedOnlyWhileOvertaking ==
  \A e \in Live :
    e \in present' /\ e \notin index'[Owner[e]]
      => \E c \in Clients : /\ task[c].pc = "dropping" /\ task[c].npc = Owner[e]
                           /\ e \notin task[c].opened

LiveEntriesStayListed == [][UnlistedOnlyWhileOvertaking]_vars

(* Every get, set and invalidate returns or raises: each pass of the loops *)
(* over the listed ids leaves one id fewer (cache.py:100-118, 181-184).    *)
OperationEnds == \A c \in Clients : task[c].pc # "idle" ~> task[c].pc = "idle"

(* The operation a client is in, as its caller sees it. *)
Work(t) ==
  [op |-> CASE t.pc = "idle" -> "idle"
            [] t.pc \in {"reading", "unlisting"} -> "get"
            [] t.pc \in {"expiring", "adding"} -> "set"
            [] t.pc \in {"deleting", "dropping"} -> "invalidate",
   npc |-> t.npc, query |-> t.query, opened |-> t.opened,
   entry |-> IF t.pc \in {"expiring", "adding"} THEN t.entry ELSE None,
   answer |-> IF t.pc = "idle" THEN t.best ELSE None]

(* The cache keeps the promise of ForgetfulCache: although ids and hashes  *)
(* come and go while a lookup reads them one by one, its answer was stored *)
(* for its NPC, is close enough and is the closest of what stayed, unless  *)
(* a response that does not decode came between; and no lookup that starts *)
(* after an invalidation finds what that one found.                        *)
Promise == INSTANCE ForgetfulCache WITH
  live <- Live,
  used <- used,
  work <- [c \in Clients |-> Work(task[c])]

ImplementsForgetfulCache == Promise!Spec
=============================================================================
