------------------------ MODULE SemanticCache_proofs ------------------------
(* Proofs about SemanticCache, for any NPCs, entries, callers, similarities *)
(* and threshold.                                                           *)
EXTENDS SemanticCache, TLAPS

(***************************************************************************)
(* The inductive invariant. An id is never given out twice, so what has    *)
(* left Redis stays away: a lookup that has passed an entry either saw it  *)
(* or will never see it again, and an invalidation leaves nothing behind   *)
(* of what it listed. An entry that has no time to live yet is known to    *)
(* the set that writes it only.                                            *)
(***************************************************************************)
Own(n) == {e \in used : Owner[e] = n}

IndexOwned == \A n \in Npcs : index[n] \subseteq Own(n)

Reads(c) == task[c].pc \in {"reading", "unlisting"}
Sets(c) == task[c].pc \in {"expiring", "adding"}
Wipes(c) == task[c].pc \in {"deleting", "dropping"}

(* The entry g whose similarity a lookup with the locals t keeps: the best *)
(* one, or one that beats it and does not decode. *)
Decides(g, t) ==
  /\ g \in t.opened /\ Sim[t.query][g] = t.level
  /\ g = t.best \/ (g \in Unreadable /\ (t.best # None => Sim[t.query][t.best] < t.level))

(* What a lookup with the locals t has found out so far. *)
Informed(t) ==
  /\ t.todo \subseteq Own(t.npc)
  /\ t.opened \subseteq Own(t.npc)
  /\ t.todo \cap present \subseteq t.opened
  /\ t.level >= 0
  /\ t.best # None => /\ t.best \in t.opened \ Unreadable
                      /\ Sim[t.query][t.best] > 0 /\ Sim[t.query][t.best] <= t.level
  /\ t.level > 0 => \E g \in Entries : Decides(g, t)
  /\ \A e \in t.opened \cap present : e \in t.todo \/ Sim[t.query][e] <= t.level

ReadsOK(c) == Reads(c) => Informed(task[c])

UnlistsOK(c) ==
  task[c].pc = "unlisting" => task[c].entry \in task[c].todo /\ task[c].entry \notin present

WipesOK(c) ==
  Wipes(c) =>
    /\ task[c].todo \subseteq Own(task[c].npc)
    /\ task[c].opened \subseteq Own(task[c].npc)
    /\ task[c].opened \cap present \subseteq task[c].todo
    /\ task[c].pc = "dropping" => task[c].todo = {}

Unknown(e) ==
  /\ \A n \in Npcs : e \notin index[n]
  /\ \A d \in Clients : e \notin task[d].todo

SetsOK(c) ==
  Sets(c) =>
    /\ task[c].entry \in Own(task[c].npc)
    /\ task[c].pc = "expiring" => /\ task[c].entry \in present \ volatile
                                  /\ Unknown(task[c].entry)
    /\ task[c].pc = "adding" /\ task[c].entry \in present => task[c].entry \in volatile
    /\ \A d \in Clients : Sets(d) /\ d # c => task[d].entry # task[c].entry

RestsOK(c) ==
  Idle(c) \/ Sets(c) => task[c].todo = {} /\ (Idle(c) => task[c].opened = {})

TasksOK == \A c \in Clients : ReadsOK(c) /\ UnlistsOK(c) /\ WipesOK(c) /\ SetsOK(c) /\ RestsOK(c)

IInv == TypeOK /\ IndexOwned /\ TasksOK /\ ListedEntriesExpire

-----------------------------------------------------------------------------
LEMMA InitIInv == Init => IInv
  <1> SUFFICES ASSUME Init PROVE IInv
    OBVIOUS
  <1>1. PICK n \in Npcs, q \in Queries : task = [c \in Clients |-> Blank(n, q)]
    BY DEF Init
  <1>2. \A c \in Clients : task[c] = Blank(n, q) /\ Blank(n, q) \in Task
    BY <1>1 DEF Blank, Task
  <1>3. TypeOK
    BY <1>1, <1>2 DEF Init, TypeOK
  <1>4. IndexOwned /\ ListedEntriesExpire
    BY DEF Init, IndexOwned, ListedEntriesExpire, Live
  <1>5. TasksOK
    BY <1>2 DEF TasksOK, ReadsOK, Informed, UnlistsOK, WipesOK, SetsOK, RestsOK, Reads, Sets, Wipes, Idle,
                Blank
  <1> QED
    BY <1>3, <1>4, <1>5 DEF IInv

(* What a caller knows stays true while others add fresh entries or take   *)
(* entries away. *)
LEMMA Frame ==
  ASSUME IInv, used \subseteq used', present' \cap used \subseteq present,
         NEW d \in Clients, task'[d] = task[d]
  PROVE  ReadsOK(d)' /\ UnlistsOK(d)' /\ WipesOK(d)' /\ RestsOK(d)'
  <1>1. ReadsOK(d) /\ UnlistsOK(d) /\ WipesOK(d) /\ RestsOK(d)
    BY DEF IInv, TasksOK
  <1>2. task[d].npc \in Npcs
    BY DEF IInv, TypeOK, Task
  <1>3. Own(task[d].npc) \subseteq Own(task[d].npc)' /\ Own(task[d].npc) \subseteq used
    BY DEF Own
  <1>4. ReadsOK(d)'
    BY <1>1, <1>3 DEF ReadsOK, Informed, Decides, Reads
  <1>5. UnlistsOK(d)'
    BY <1>1, <1>3 DEF ReadsOK, Informed, Reads, UnlistsOK
  <1>6. WipesOK(d)'
    BY <1>1, <1>3 DEF WipesOK, Wipes
  <1>7. RestsOK(d)'
    BY <1>1 DEF RestsOK, Idle, Sets
  <1> QED
    BY <1>4, <1>5, <1>6, <1>7

(* A set in progress keeps its entry to itself. *)
LEMMA FrameSets ==
  ASSUME IInv, used \subseteq used', present' \cap used \subseteq present,
         volatile \cap present' \subseteq volatile',
         NEW c \in Clients, NEW d \in Clients, d # c,
         \A x \in Clients \ {c} : task'[x] = task[x],
         task[d].pc = "expiring" =>
           task[d].entry \in present' \ volatile' /\ Unknown(task[d].entry)',
         Sets(c)' => task'[c].entry # task[d].entry
  PROVE  SetsOK(d)'
  <1>1. SetsOK(d) /\ task'[d] = task[d]
    BY DEF IInv, TasksOK
  <1> SUFFICES ASSUME Sets(d)'
               PROVE  SetsOK(d)'
    BY DEF SetsOK
  <1>2. Sets(d) /\ task[d].entry \in Own(task[d].npc)
    BY <1>1 DEF Sets, SetsOK
  <1>3. (task[d].entry \in Own(task[d].npc))' /\ task[d].entry \in used
    BY <1>1, <1>2 DEF Own
  <1>4. task'[d].pc = "adding" /\ task'[d].entry \in present' => task'[d].entry \in volatile'
    BY <1>1, <1>2, <1>3 DEF SetsOK
  <1>5. \A x \in Clients : Sets(x)' /\ x # d => task'[x].entry # task'[d].entry
    BY <1>1, <1>2 DEF SetsOK, Sets
  <1>6. (task[d].pc = "expiring" => /\ task[d].entry \in present \ volatile
                                    /\ Unknown(task[d].entry))'
    BY <1>1
  <1> QED
    BY <1>3, <1>4, <1>5, <1>6 DEF SetsOK

(* The entry a set writes has been given out, and its hash is not known to *)
(* anybody else before it can expire. *)
LEMMA SetsFacts ==
  ASSUME IInv, NEW d \in Clients
  PROVE  /\ Sets(d) => task[d].entry \in used /\ Owner[task[d].entry] = task[d].npc
         /\ task[d].pc = "expiring" =>
              task[d].entry \in present \ volatile /\ Unknown(task[d].entry)
         /\ \A c \in Clients : Sets(c) /\ Sets(d) /\ c # d => task[c].entry # task[d].entry
  BY DEF IInv, TasksOK, SetsOK, Own, Sets

LEMMA StepTask ==
  ASSUME IInv, NEW c \in Clients, NEW t \in Task, Set(c, t)
  PROVE  /\ task' \in [Clients -> Task]
         /\ task'[c] = t
         /\ \A x \in Clients \ {c} : task'[x] = task[x]
  BY DEF IInv, TypeOK, Set

(* Putting the parts together for a step of c. *)
LEMMA Assemble ==
  ASSUME IInv, TypeOK', IndexOwned', ListedEntriesExpire', NEW c \in Clients,
         used \subseteq used', present' \cap used \subseteq present,
         volatile \cap present' \subseteq volatile',
         \A x \in Clients \ {c} : task'[x] = task[x],
         \A d \in Clients \ {c} :
           /\ task[d].pc = "expiring" =>
                task[d].entry \in present' \ volatile' /\ Unknown(task[d].entry)'
           /\ Sets(c)' /\ Sets(d) => task'[c].entry # task[d].entry,
         ReadsOK(c)' /\ UnlistsOK(c)' /\ WipesOK(c)' /\ SetsOK(c)' /\ RestsOK(c)'
  PROVE  IInv'
  <1>1. ASSUME NEW d \in Clients, d # c
        PROVE  ReadsOK(d)' /\ UnlistsOK(d)' /\ WipesOK(d)' /\ SetsOK(d)' /\ RestsOK(d)'
    <2>1. task'[d] = task[d]
      BY <1>1
    <2>2. ReadsOK(d)' /\ UnlistsOK(d)' /\ WipesOK(d)' /\ RestsOK(d)'
      BY <1>1, <2>1, Frame
    <2>3. CASE Sets(d)
      BY <1>1, <2>2, <2>3, FrameSets
    <2>4. CASE ~Sets(d)
      BY <2>1, <2>2, <2>4 DEF SetsOK, Sets
    <2> QED
      BY <2>2, <2>3, <2>4
  <1>2. TasksOK'
    BY <1>1 DEF TasksOK
  <1> QED
    BY <1>2 DEF IInv

-----------------------------------------------------------------------------
(* One lemma per action. *)

LEMMA BlankType ==
  ASSUME NEW n \in Npcs, NEW q \in Queries
  PROVE  Blank(n, q) \in Task
  BY DEF Blank, Task

LEMMA TaskType ==
  ASSUME IInv, NEW c \in Clients
  PROVE  task[c] \in Task
  BY DEF IInv, TypeOK

(* The step of c leaves index, hashes and ids as they are, and c is not in *)
(* a set afterwards. *)
LEMMA Private ==
  ASSUME IInv, NEW c \in Clients, NEW t \in Task, Set(c, t),
         UNCHANGED <<index, present, volatile, used>>,
         t.pc \notin {"expiring", "adding"},
         \A e \in t.todo : e \in task[c].todo \/ \E n \in Npcs : e \in index[n],
         ReadsOK(c)' /\ UnlistsOK(c)' /\ WipesOK(c)' /\ RestsOK(c)'
  PROVE  IInv'
  <1>1. TypeOK' /\ task'[c] = t /\ \A x \in Clients \ {c} : task'[x] = task[x]
    BY StepTask DEF IInv, TypeOK
  <1>2. IndexOwned' /\ ListedEntriesExpire'
    BY DEF IInv, IndexOwned, Own, ListedEntriesExpire, Live
  <1>3. ~Sets(c)'
    BY <1>1 DEF Sets
  <1>4. ASSUME NEW d \in Clients \ {c}, task[d].pc = "expiring"
        PROVE  task[d].entry \in present' \ volatile' /\ Unknown(task[d].entry)'
    <2>1. task[d].entry \in present \ volatile /\ Unknown(task[d].entry)
      BY <1>4, SetsFacts
    <2>2. task[d].entry \notin t.todo
      BY <2>1 DEF Unknown
    <2> QED
      BY <1>1, <2>1, <2>2 DEF Unknown
  <1> QED
    BY <1>1, <1>2, <1>3, <1>4, Assemble DEF SetsOK

LEMMA BeginGetIInv ==
  ASSUME IInv, NEW c \in Clients, NEW n \in Npcs, NEW q \in Queries, BeginGet(c, n, q)
  PROVE  IInv'
  <1> DEFINE t == IF index[n] = {} THEN Blank(n, q)
                  ELSE [Blank(n, q) EXCEPT !.pc = "reading", !.todo = index[n],
                                           !.opened = LiveOf(n)]
  <1>1. index[n] \subseteq Own(n) /\ Own(n) \subseteq Entries
    BY DEF IInv, IndexOwned, Own, TypeOK
  <1>2. LiveOf(n) = index[n] \cap present
    BY <1>1 DEF LiveOf, Live, Own
  <1>3. t \in Task
    BY <1>1, <1>2, BlankType DEF Task, Blank
  <1>4. Set(c, t) /\ UNCHANGED <<index, present, volatile, used>>
    BY DEF BeginGet
  <1>5. task'[c] = t
    BY <1>3, <1>4, StepTask
  <1>6. ReadsOK(c)' /\ UnlistsOK(c)' /\ WipesOK(c)' /\ RestsOK(c)'
    BY <1>1, <1>2, <1>4, <1>5 DEF Blank, ReadsOK, Informed, UnlistsOK, WipesOK, RestsOK, Reads, Wipes, Idle, Sets, Own
  <1>7. t.pc \notin {"expiring", "adding"} /\ t.todo \subseteq index[n]
    BY DEF Blank
  <1> QED
    BY <1>3, <1>4, <1>6, <1>7, Private

LEMMA DoneFacts ==
  ASSUME NEW t \in Task, NEW a \in Entries \cup {None, Raised}
  PROVE  /\ Done(t, a) \in Task
         /\ Done(t, a).pc = "idle" /\ Done(t, a).todo = {} /\ Done(t, a).opened = {}
         /\ Done(t, a).npc = t.npc /\ Done(t, a).query = t.query /\ Done(t, a).best = a
  BY DEF Done, Blank, Task

LEMMA IdleOK ==
  ASSUME NEW c \in Clients, task'[c].pc = "idle", task'[c].todo = {}, task'[c].opened = {}
  PROVE  ReadsOK(c)' /\ UnlistsOK(c)' /\ WipesOK(c)' /\ SetsOK(c)' /\ RestsOK(c)' /\ ~Sets(c)'
  BY DEF ReadsOK, Informed, UnlistsOK, WipesOK, SetsOK, RestsOK, Reads, Wipes, Idle, Sets

LEMMA AdvanceFacts ==
  ASSUME NEW t \in Task
  PROVE  /\ Advance(t) \in Task
         /\ t.todo = {} => Advance(t) = Done(t, Verdict(t))
         /\ t.todo # {} => Advance(t) = [t EXCEPT !.pc = "reading"]
         /\ Advance(t).todo = t.todo
         /\ Advance(t).pc \in {"idle", "reading"}
  <1>1. Verdict(t) \in Entries \cup {None, Raised}
    BY DEF Verdict, Task
  <1>2. [t EXCEPT !.pc = "reading"] \in Task
    BY DEF Task
  <1>3. Done(t, Verdict(t)) \in Task /\ Done(t, Verdict(t)).pc = "idle" /\ Done(t, Verdict(t)).todo = {}
    BY <1>1, DoneFacts
  <1> QED
    BY <1>2, <1>3 DEF Advance, Task

(* A lookup that goes on with the locals t, true of the hashes as they are *)
(* now, keeps them true. *)
LEMMA AdvanceOK ==
  ASSUME IInv, NEW c \in Clients, NEW t \in Task, task'[c] = Advance(t),
         used' = used, present' = present,
         Informed(t)
  PROVE  ReadsOK(c)' /\ UnlistsOK(c)' /\ WipesOK(c)' /\ RestsOK(c)'
  <1>1. CASE t.todo = {}
    <2>1. Verdict(t) \in Entries \cup {None, Raised} /\ task'[c] = Done(t, Verdict(t))
      BY <1>1, AdvanceFacts DEF Verdict, Task
    <2> QED
      BY <2>1, DoneFacts, IdleOK
  <1>2. CASE t.todo # {}
    <2>1. task'[c] = [t EXCEPT !.pc = "reading"]
      BY <1>2, AdvanceFacts
    <2>2. ReadsOK(c)'
      BY <2>1 DEF ReadsOK, Informed, Decides, Reads, Own, Task
    <2> QED
      BY <2>1, <2>2 DEF UnlistsOK, WipesOK, RestsOK, Wipes, Idle, Sets, Task
  <1> QED
    BY <1>1, <1>2

(* Reading the hash of e leaves the lookup better informed. *)
LEMMA ReadEntryNext ==
  ASSUME IInv, NEW c \in Clients, NEW e \in Entries, ReadEntry(c, e), e \in present
  PROVE  \E t \in Task :
           /\ Informed(t) /\ Set(c, Advance(t))
           /\ t.npc = task[c].npc /\ t.query = task[c].query /\ t.opened = task[c].opened
           /\ t.todo = task[c].todo \ {e}
  <1> DEFINE t == task[c]
             next == Compared(t, e)
  <1>1. t \in Task /\ t.pc = "reading" /\ e \in t.todo
    BY TaskType DEF ReadEntry
  <1>2. Informed(t)
    BY <1>1 DEF IInv, TasksOK, Reads, ReadsOK
  <1>3. \A f \in Entries : Sim[t.query][f] \in Int
    BY <1>1, CacheAssumption DEF Task
  <1>4. next \in Task
    BY <1>1, <1>3 DEF Task, Compared
  <1>5. Set(c, Advance(next))
    BY DEF ReadEntry
  <1>6. /\ next.npc = t.npc /\ next.query = t.query /\ next.opened = t.opened
        /\ next.todo = t.todo \ {e}
        /\ next.level = IF Sim[t.query][e] > t.level THEN Sim[t.query][e] ELSE t.level
        /\ next.best = IF Sim[t.query][e] > t.level /\ e \notin Unreadable THEN e ELSE t.best
    BY <1>1 DEF Task, Compared, Better
  <1>7. e \in t.opened /\ e # None /\ t.opened \subseteq Entries /\ t.level \in Int
        /\ None \notin t.opened
    BY <1>1, <1>2, CacheAssumption DEF Informed, Task
  <1>8. \A f \in t.opened \cap present : f \in next.todo \/ Sim[t.query][f] <= next.level
    <2> SUFFICES ASSUME NEW f \in t.opened \cap present, f \notin next.todo
                 PROVE  Sim[t.query][f] <= next.level
      OBVIOUS
    <2>1. f = e \/ Sim[t.query][f] <= t.level
      BY <1>2, <1>6 DEF Informed
    <2> HIDE DEF next
    <2> QED
      BY <1>3, <1>6, <1>7, <2>1
  <1> HIDE DEF next
  <1>9. /\ next.level >= 0
        /\ next.best # None =>
             /\ next.best \in t.opened \ Unreadable
             /\ Sim[t.query][next.best] > 0 /\ Sim[t.query][next.best] <= next.level
    BY <1>2, <1>3, <1>6, <1>7 DEF Informed
  <1>10. next.level > 0 => \E g \in Entries : Decides(g, next)
    <2>1. CASE Sim[t.query][e] > t.level
      <3>1. next.best # e /\ next.best # None => Sim[t.query][next.best] < next.level
        BY <1>2, <1>3, <1>6, <1>7, <2>1 DEF Informed
      <3>2. next.best = e \/ e \in Unreadable
        BY <1>6, <2>1
      <3>3. Decides(e, next)
        BY <1>6, <1>7, <2>1, <3>1, <3>2 DEF Decides
      <3> QED
        BY <3>3
    <2>2. CASE ~(Sim[t.query][e] > t.level)
      BY <1>2, <1>6, <2>2 DEF Informed, Decides
    <2> QED
      BY <2>1, <2>2
  <1>11. Informed(next)
    BY <1>2, <1>6, <1>8, <1>9, <1>10 DEF Informed
  <1> QED
    BY <1>4, <1>5, <1>6, <1>11

LEMMA ReadEntryIInv ==
  ASSUME IInv, NEW c \in Clients, NEW e \in Entries, ReadEntry(c, e)
  PROVE  IInv'
  <1>1. /\ task[c] \in Task /\ task[c].pc = "reading" /\ e \in task[c].todo
        /\ UNCHANGED <<index, present, volatile, used>>
    BY TaskType DEF ReadEntry
  <1>2. ReadsOK(c) /\ Reads(c)
    BY <1>1 DEF IInv, TasksOK, Reads
  <1>3. CASE e \notin present
    <2> DEFINE u == [task[c] EXCEPT !.pc = "unlisting", !.entry = e]
    <2>1. Set(c, u) /\ u \in Task
      BY <1>1, <1>3 DEF ReadEntry, Task
    <2>2. task'[c] = u
      BY <2>1, StepTask
    <2>3. /\ u.pc = "unlisting" /\ u.entry = e /\ u.npc = task[c].npc /\ u.query = task[c].query
          /\ u.todo = task[c].todo /\ u.best = task[c].best /\ u.opened = task[c].opened
          /\ u.level = task[c].level
      BY <1>1 DEF Task
    <2> HIDE DEF u
    <2>4. ReadsOK(c)'
      BY <1>1, <1>2, <2>2, <2>3 DEF ReadsOK, Informed, Decides, Reads, Own
    <2>5. UnlistsOK(c)' /\ WipesOK(c)' /\ RestsOK(c)'
      BY <1>1, <1>3, <2>2, <2>3 DEF UnlistsOK, WipesOK, RestsOK, Wipes, Idle, Sets
    <2> QED
      BY <1>1, <2>1, <2>3, <2>4, <2>5, Private
  <1>4. CASE e \in present
    <2>1. PICK t \in Task : Informed(t) /\ Set(c, Advance(t)) /\ t.todo = task[c].todo \ {e}
      BY <1>4, ReadEntryNext
    <2>2. Advance(t) \in Task /\ task'[c] = Advance(t)
      BY <2>1, AdvanceFacts, StepTask
    <2>3. ReadsOK(c)' /\ UnlistsOK(c)' /\ WipesOK(c)' /\ RestsOK(c)'
      BY <1>1, <2>1, <2>2, AdvanceOK
    <2> QED
      BY <1>1, <2>1, <2>2, <2>3, AdvanceFacts, Private
  <1> QED
    BY <1>3, <1>4

(* Taking a dead id off the index tells the lookup nothing new. *)
LEMMA UnlistNext ==
  ASSUME IInv, NEW c \in Clients, Unlist(c)
  PROVE  \E t \in Task :
           /\ Informed(t) /\ Set(c, Advance(t))
           /\ t.npc = task[c].npc /\ t.query = task[c].query /\ t.opened = task[c].opened
           /\ t.todo = task[c].todo \ {task[c].entry}
  <1> DEFINE t == task[c]
             rest == [t EXCEPT !.todo = @ \ {t.entry}, !.entry = None]
  <1>1. t \in Task /\ t.pc = "unlisting" /\ Set(c, Advance(rest))
    BY TaskType DEF Unlist
  <1>2. Informed(t) /\ t.entry \notin present
    BY <1>1 DEF IInv, TasksOK, Reads, ReadsOK, UnlistsOK
  <1>3. /\ rest \in Task
        /\ rest.npc = t.npc /\ rest.query = t.query /\ rest.opened = t.opened
        /\ rest.todo = t.todo \ {t.entry} /\ rest.best = t.best /\ rest.level = t.level
    BY <1>1 DEF Task
  <1> HIDE DEF rest
  <1>4. Informed(rest)
    BY <1>2, <1>3 DEF Informed, Decides
  <1> QED
    BY <1>1, <1>3, <1>4

LEMMA UnlistIInv ==
  ASSUME IInv, NEW c \in Clients, Unlist(c)
  PROVE  IInv'
  <1>1. PICK t \in Task : /\ Informed(t) /\ Set(c, Advance(t))
                          /\ t.todo = task[c].todo \ {task[c].entry}
    BY UnlistNext
  <1>2. UNCHANGED <<present, volatile, used>> /\ task[c].npc \in Npcs
    BY TaskType DEF Unlist, Task
  <1>3. /\ \A n \in Npcs : index'[n] \subseteq index[n]
        /\ index' \in [Npcs -> SUBSET Entries]
    BY <1>2 DEF Unlist, IInv, TypeOK
  <1>4. /\ Advance(t) \in Task /\ task' \in [Clients -> Task]
        /\ task'[c] = Advance(t) /\ \A x \in Clients \ {c} : task'[x] = task[x]
    BY <1>1, AdvanceFacts, StepTask
  <1>5. TypeOK'
    BY <1>2, <1>3, <1>4 DEF IInv, TypeOK
  <1>6. IndexOwned' /\ ListedEntriesExpire'
    <2>1. \A e \in present : Owner[e] \in Npcs
      BY CacheAssumption DEF IInv, TypeOK
    <2> QED
      BY <1>2, <1>3, <2>1 DEF IInv, IndexOwned, Own, ListedEntriesExpire, Live
  <1>7. ReadsOK(c)' /\ UnlistsOK(c)' /\ WipesOK(c)' /\ RestsOK(c)'
    BY <1>1, <1>2, <1>4, AdvanceOK
  <1>8. ~Sets(c)' /\ task'[c].todo \subseteq task[c].todo
    BY <1>1, <1>4, AdvanceFacts DEF Sets
  <1>9. ASSUME NEW d \in Clients \ {c}, task[d].pc = "expiring"
        PROVE  task[d].entry \in present' \ volatile' /\ Unknown(task[d].entry)'
    <2>1. task[d].entry \in present \ volatile /\ Unknown(task[d].entry)
      BY <1>9, SetsFacts
    <2> QED
      BY <1>2, <1>3, <1>4, <1>8, <2>1 DEF Unknown
  <1> QED
    BY <1>2, <1>4, <1>5, <1>6, <1>7, <1>8, <1>9, Assemble DEF SetsOK

LEMMA BeginSetIInv ==
  ASSUME IInv, NEW c \in Clients, NEW e \in Entries, BeginSet(c, e)
  PROVE  IInv'
  <1> DEFINE n == Owner[e]
             t == [Blank(n, task[c].query) EXCEPT !.pc = "expiring", !.entry = e,
                                                  !.opened = LiveOf(n)]
  <1>1. n \in Npcs /\ task[c].query \in Queries /\ LiveOf(n) \subseteq Entries
    BY TaskType, CacheAssumption DEF Task, LiveOf, Live, IInv, TypeOK
  <1>2. t \in Task /\ Set(c, t)
    BY <1>1, BlankType DEF Task, Blank, BeginSet
  <1>3. /\ t.pc = "expiring" /\ t.entry = e /\ t.npc = n /\ t.todo = {}
    BY DEF Blank
  <1> HIDE DEF t
  <1>4. /\ e \notin used /\ used' = used \cup {e} /\ present' = present \cup {e}
        /\ UNCHANGED <<index, volatile>>
    BY DEF BeginSet
  <1>5. task'[c] = t /\ \A x \in Clients \ {c} : task'[x] = task[x]
    BY <1>2, StepTask
  <1>6. TypeOK'
    BY <1>2, <1>4, StepTask DEF IInv, TypeOK
  <1>7. \A m \in Npcs : e \notin index[m]
    BY <1>4 DEF IInv, IndexOwned, Own
  <1>8. \A x \in Clients : task[x].todo \subseteq used
    <2> SUFFICES ASSUME NEW x \in Clients PROVE task[x].todo \subseteq used
      OBVIOUS
    <2>1. task[x] \in Task /\ ReadsOK(x) /\ WipesOK(x) /\ RestsOK(x)
      BY TaskType DEF IInv, TasksOK
    <2> QED
      BY <2>1 DEF ReadsOK, Informed, WipesOK, RestsOK, Reads, Wipes, Idle, Sets, Own, Task
  <1>9. IndexOwned' /\ ListedEntriesExpire'
    BY <1>1, <1>4, <1>7 DEF IInv, IndexOwned, Own, ListedEntriesExpire, Live
  <1>10. Unknown(e)'
    BY <1>3, <1>4, <1>5, <1>7, <1>8 DEF Unknown
  <1>11. e \notin volatile'
    BY <1>4 DEF IInv, TypeOK
  <1>12. ASSUME NEW d \in Clients \ {c}
         PROVE  /\ task[d].pc = "expiring" =>
                     task[d].entry \in present' \ volatile' /\ Unknown(task[d].entry)'
                /\ Sets(d) => task'[c].entry # task[d].entry
    BY <1>3, <1>4, <1>5, SetsFacts DEF Unknown
  <1>13. SetsOK(c)'
    <2>1. \A d \in Clients : Sets(d)' /\ d # c => task'[d].entry # task'[c].entry
      BY <1>5, <1>12 DEF Sets
    <2>2. (task[c].entry \in Own(task[c].npc))'
      BY <1>3, <1>4, <1>5 DEF Own
    <2>3. task'[c].entry \in present' /\ task'[c].entry = e /\ task'[c].pc = "expiring"
      BY <1>3, <1>4, <1>5
    <2> QED
      BY <1>10, <1>11, <2>1, <2>2, <2>3 DEF SetsOK
  <1>14. ReadsOK(c)' /\ UnlistsOK(c)' /\ WipesOK(c)' /\ RestsOK(c)'
    BY <1>3, <1>5 DEF ReadsOK, Informed, UnlistsOK, WipesOK, RestsOK, Reads, Wipes, Idle
  <1> QED
    BY <1>4, <1>5, <1>6, <1>9, <1>12, <1>13, <1>14, Assemble

LEMMA SetTimeToLiveIInv ==
  ASSUME IInv, NEW c \in Clients, SetTimeToLive(c)
  PROVE  IInv'
  <1> DEFINE t == [task[c] EXCEPT !.pc = "adding"]
             e == task[c].entry
  <1>1. task[c] \in Task /\ task[c].pc = "expiring" /\ SetsOK(c) /\ RestsOK(c) /\ Sets(c)
    BY TaskType DEF IInv, TasksOK, SetTimeToLive, Sets
  <1>2. t \in Task /\ Set(c, t)
    BY <1>1 DEF Task, SetTimeToLive
  <1>3. /\ t.pc = "adding" /\ t.entry = e /\ t.npc = task[c].npc /\ t.todo = {}
    BY <1>1 DEF Task, RestsOK, Sets
  <1> HIDE DEF t
  <1>4. volatile' = volatile \cup {e} /\ UNCHANGED <<index, present, used>>
    BY DEF SetTimeToLive
  <1>5. task'[c] = t /\ \A x \in Clients \ {c} : task'[x] = task[x]
    BY <1>2, StepTask
  <1>6. e \in present /\ e \in Own(task[c].npc)
    BY <1>1, SetsFacts DEF SetsOK
  <1>7. TypeOK'
    BY <1>2, <1>4, <1>6, StepTask DEF IInv, TypeOK
  <1>8. IndexOwned' /\ ListedEntriesExpire'
    BY <1>4 DEF IInv, IndexOwned, Own, ListedEntriesExpire, Live
  <1>9. ASSUME NEW d \in Clients \ {c}, Sets(d)
        PROVE  /\ task[d].pc = "expiring" =>
                    task[d].entry \in present' \ volatile' /\ Unknown(task[d].entry)'
               /\ task'[c].entry # task[d].entry
    BY <1>1, <1>3, <1>4, <1>5, <1>9, SetsFacts DEF Unknown
  <1>10. SetsOK(c)'
    <2>1. \A d \in Clients : Sets(d)' /\ d # c => task'[d].entry # task'[c].entry
      BY <1>5, <1>9 DEF Sets
    <2>2. (task[c].entry \in Own(task[c].npc))'
      BY <1>3, <1>4, <1>5, <1>6 DEF Own
    <2> QED
      BY <1>3, <1>4, <1>5, <2>1, <2>2 DEF SetsOK
  <1>11. ReadsOK(c)' /\ UnlistsOK(c)' /\ WipesOK(c)' /\ RestsOK(c)'
    BY <1>3, <1>5 DEF ReadsOK, Informed, UnlistsOK, WipesOK, RestsOK, Reads, Wipes, Idle
  <1>12. \A d \in Clients : task[d].pc = "expiring" => Sets(d)
    BY DEF Sets
  <1> QED
    BY <1>4, <1>5, <1>7, <1>8, <1>9, <1>10, <1>11, <1>12, Assemble

LEMMA ListEntryIInv ==
  ASSUME IInv, NEW c \in Clients, ListEntry(c)
  PROVE  IInv'
  <1> DEFINE e == task[c].entry
             n == task[c].npc
  <1>1. /\ task[c] \in Task /\ task[c].pc = "adding" /\ Sets(c) /\ SetsOK(c)
        /\ n \in Npcs
    BY TaskType DEF ListEntry, Sets, IInv, TasksOK, Task
  <1>2. e \in used /\ Owner[e] = n /\ (e \in present => e \in volatile) /\ e \in Entries
    BY <1>1, SetsFacts DEF SetsOK, IInv, TypeOK
  <1>3. Set(c, Done(task[c], None)) /\ UNCHANGED <<present, volatile, used>>
    BY DEF ListEntry
  <1>4. /\ index' \in [Npcs -> SUBSET Entries]
        /\ \A m \in Npcs : index'[m] = IF m = n THEN index[m] \cup {e} ELSE index[m]
    BY <1>1, <1>2 DEF ListEntry, IInv, TypeOK
  <1>5. /\ task' \in [Clients -> Task]
        /\ task'[c] = Done(task[c], None) /\ \A x \in Clients \ {c} : task'[x] = task[x]
    BY <1>1, <1>3, DoneFacts, StepTask
  <1>6. TypeOK'
    BY <1>3, <1>4, <1>5 DEF IInv, TypeOK
  <1>7. IndexOwned'
    BY <1>2, <1>3, <1>4 DEF IInv, IndexOwned, Own
  <1>8. ListedEntriesExpire'
    <2>1. \A f \in present : Owner[f] \in Npcs
      BY CacheAssumption DEF IInv, TypeOK
    <2> QED
      BY <1>2, <1>3, <1>4, <2>1 DEF IInv, ListedEntriesExpire, Live
  <1>9. task'[c].pc = "idle" /\ task'[c].todo = {} /\ task'[c].opened = {}
    BY <1>1, <1>5, DoneFacts
  <1>10. ASSUME NEW d \in Clients \ {c}, task[d].pc = "expiring"
         PROVE  task[d].entry \in present' \ volatile' /\ Unknown(task[d].entry)'
    <2>1. Sets(d) /\ task[d].entry \in present \ volatile /\ Unknown(task[d].entry)
      BY <1>10, SetsFacts DEF Sets
    <2>2. task[d].entry # e
      BY <1>1, <2>1, SetsFacts
    <2> QED
      BY <1>3, <1>4, <1>5, <1>9, <2>1, <2>2 DEF Unknown
  <1> QED
    BY <1>3, <1>5, <1>6, <1>7, <1>8, <1>9, <1>10, IdleOK, Assemble

LEMMA BeginInvalidateIInv ==
  ASSUME IInv, NEW c \in Clients, NEW n \in Npcs, BeginInvalidate(c, n)
  PROVE  IInv'
  <1> DEFINE t == [Blank(n, task[c].query) EXCEPT
                     !.pc = IF index[n] = {} THEN "dropping" ELSE "deleting",
                     !.todo = index[n], !.opened = LiveOf(n)]
  <1>1. index[n] \subseteq Own(n) /\ Own(n) \subseteq Entries /\ task[c].query \in Queries
    BY TaskType DEF IInv, IndexOwned, Own, TypeOK, Task
  <1>2. LiveOf(n) = index[n] \cap present
    BY <1>1 DEF LiveOf, Live, Own
  <1>3. t \in Task /\ Set(c, t) /\ UNCHANGED <<index, present, volatile, used>>
    BY <1>1, <1>2, BlankType DEF Task, Blank, BeginInvalidate
  <1>4. /\ t.npc = n /\ t.todo = index[n] /\ t.opened = index[n] \cap present
        /\ t.pc \in {"dropping", "deleting"} /\ (t.pc = "dropping" => index[n] = {})
    BY <1>2 DEF Blank
  <1> HIDE DEF t
  <1>5. task'[c] = t
    BY <1>3, StepTask
  <1>6. WipesOK(c)'
    BY <1>1, <1>3, <1>4, <1>5 DEF WipesOK, Wipes, Own
  <1>7. ReadsOK(c)' /\ UnlistsOK(c)' /\ RestsOK(c)'
    BY <1>4, <1>5 DEF ReadsOK, Informed, UnlistsOK, RestsOK, Reads, Idle, Sets
  <1> QED
    BY <1>3, <1>4, <1>6, <1>7, Private

(* A hash that is known to somebody, or has a time to live, goes away. *)
LEMMA Removal ==
  ASSUME IInv, NEW e, present' = present \ {e}, volatile' = volatile \ {e},
         UNCHANGED <<index, used>>
  PROVE  /\ IndexOwned' /\ ListedEntriesExpire'
         /\ present' \in SUBSET used' /\ volatile' \in SUBSET present'
  BY DEF IInv, TypeOK, IndexOwned, Own, ListedEntriesExpire, Live

LEMMA DeleteEntryIInv ==
  ASSUME IInv, NEW c \in Clients, NEW e \in Entries, DeleteEntry(c, e)
  PROVE  IInv'
  <1> DEFINE t == [task[c] EXCEPT !.todo = @ \ {e},
                                  !.pc = IF task[c].todo = {e} THEN "dropping" ELSE "deleting"]
  <1>1. /\ task[c] \in Task /\ task[c].pc = "deleting" /\ e \in task[c].todo
        /\ Wipes(c) /\ WipesOK(c)
    BY TaskType DEF DeleteEntry, IInv, TasksOK, Wipes
  <1>2. t \in Task /\ Set(c, t)
    BY <1>1 DEF Task, DeleteEntry
  <1>3. /\ t.npc = task[c].npc /\ t.todo = task[c].todo \ {e} /\ t.opened = task[c].opened
        /\ t.pc \in {"dropping", "deleting"} /\ (t.pc = "dropping" => t.todo = {})
    BY <1>1 DEF Task
  <1> HIDE DEF t
  <1>4. /\ present' = present \ {e} /\ volatile' = volatile \ {e}
        /\ UNCHANGED <<index, used>>
    BY DEF DeleteEntry
  <1>5. /\ task' \in [Clients -> Task] /\ task'[c] = t
        /\ \A x \in Clients \ {c} : task'[x] = task[x]
    BY <1>2, StepTask
  <1>6. TypeOK' /\ IndexOwned' /\ ListedEntriesExpire'
    BY <1>4, <1>5, Removal DEF IInv, TypeOK
  <1>7. WipesOK(c)'
    BY <1>1, <1>3, <1>4, <1>5 DEF WipesOK, Wipes, Own
  <1>8. ReadsOK(c)' /\ UnlistsOK(c)' /\ RestsOK(c)' /\ ~Sets(c)'
    BY <1>3, <1>5 DEF ReadsOK, Informed, UnlistsOK, RestsOK, Reads, Idle, Sets
  <1>9. ASSUME NEW d \in Clients \ {c}, task[d].pc = "expiring"
        PROVE  task[d].entry \in present' \ volatile' /\ Unknown(task[d].entry)'
    <2>1. task[d].entry \in present \ volatile /\ Unknown(task[d].entry)
      BY <1>9, SetsFacts
    <2> QED
      BY <1>1, <1>3, <1>4, <1>5, <2>1 DEF Unknown
  <1> QED
    BY <1>4, <1>5, <1>6, <1>7, <1>8, <1>9, Assemble DEF SetsOK

LEMMA DropIndexIInv ==
  ASSUME IInv, NEW c \in Clients, DropIndex(c)
  PROVE  IInv'
  <1>1. task[c] \in Task /\ task[c].npc \in Npcs
    BY TaskType DEF Task
  <1>2. Set(c, Done(task[c], None)) /\ UNCHANGED <<present, volatile, used>>
    BY DEF DropIndex
  <1>3. /\ index' \in [Npcs -> SUBSET Entries]
        /\ \A m \in Npcs : index'[m] \subseteq index[m]
    BY <1>1 DEF DropIndex, IInv, TypeOK
  <1>4. /\ task' \in [Clients -> Task]
        /\ task'[c] = Done(task[c], None) /\ \A x \in Clients \ {c} : task'[x] = task[x]
    BY <1>1, <1>2, DoneFacts, StepTask
  <1>5. TypeOK'
    BY <1>2, <1>3, <1>4 DEF IInv, TypeOK
  <1>6. IndexOwned' /\ ListedEntriesExpire'
    <2>1. \A f \in present : Owner[f] \in Npcs
      BY CacheAssumption DEF IInv, TypeOK
    <2> QED
      BY <1>2, <1>3, <2>1 DEF IInv, IndexOwned, Own, ListedEntriesExpire, Live
  <1>7. task'[c].pc = "idle" /\ task'[c].todo = {} /\ task'[c].opened = {}
    BY <1>1, <1>4, DoneFacts
  <1>8. ASSUME NEW d \in Clients \ {c}, task[d].pc = "expiring"
        PROVE  task[d].entry \in present' \ volatile' /\ Unknown(task[d].entry)'
    <2>1. task[d].entry \in present \ volatile /\ Unknown(task[d].entry)
      BY <1>8, SetsFacts
    <2> QED
      BY <1>2, <1>3, <1>4, <1>7, <2>1 DEF Unknown
  <1> QED
    BY <1>2, <1>4, <1>5, <1>6, <1>7, <1>8, IdleOK, Assemble

LEMMA RaiseIInv ==
  ASSUME IInv, NEW c \in Clients, Raise(c)
  PROVE  IInv'
  <1>1. /\ Set(c, Done(task[c], Raised)) /\ Done(task[c], Raised) \in Task
        /\ UNCHANGED <<index, present, volatile, used>>
    BY TaskType, DoneFacts DEF Raise
  <1>2. /\ Done(task[c], Raised).pc = "idle" /\ Done(task[c], Raised).todo = {}
        /\ Done(task[c], Raised).opened = {}
    BY TaskType, DoneFacts
  <1>3. task'[c] = Done(task[c], Raised)
    BY <1>1, StepTask
  <1> QED
    BY <1>1, <1>2, <1>3, IdleOK, Private

LEMMA LapseIInv ==
  ASSUME IInv, NEW e \in Entries, Lapse(e)
  PROVE  IInv'
  <1>1. /\ e \in volatile /\ present' = present \ {e} /\ volatile' = volatile \ {e}
        /\ UNCHANGED <<index, used, task>>
    BY DEF Lapse
  <1>2. TypeOK' /\ IndexOwned' /\ ListedEntriesExpire'
    BY <1>1, Removal DEF IInv, TypeOK
  <1>3. ASSUME NEW d \in Clients
        PROVE  ReadsOK(d)' /\ UnlistsOK(d)' /\ WipesOK(d)' /\ SetsOK(d)' /\ RestsOK(d)'
    <2>1. ReadsOK(d)' /\ UnlistsOK(d)' /\ WipesOK(d)' /\ RestsOK(d)'
      BY <1>1, Frame
    <2>2. SetsOK(d)
      BY DEF IInv, TasksOK
    <2>3. SetsOK(d)'
      BY <1>1, <2>2 DEF SetsOK, Sets, Own, Unknown
    <2> QED
      BY <2>1, <2>3
  <1> QED
    BY <1>2, <1>3 DEF IInv, TasksOK

LEMMA NextIInv == IInv /\ [Next]_vars => IInv'
  <1> SUFFICES ASSUME IInv, [Next]_vars PROVE IInv'
    OBVIOUS
  <1>1. CASE UNCHANGED vars
    BY <1>1 DEF vars, IInv, TypeOK, IndexOwned, TasksOK, ListedEntriesExpire, Live, Own, ReadsOK, Informed,
                UnlistsOK, WipesOK, SetsOK, RestsOK, Reads, Wipes, Sets, Idle, Unknown
  <1>2. ASSUME NEW c \in Clients, Begin(c)
        PROVE  IInv'
    BY <1>2, BeginGetIInv, BeginSetIInv, BeginInvalidateIInv DEF Begin
  <1>3. ASSUME NEW c \in Clients, Resume(c)
        PROVE  IInv'
    BY <1>3, ReadEntryIInv, UnlistIInv, SetTimeToLiveIInv, ListEntryIInv, DeleteEntryIInv,
       DropIndexIInv DEF Resume
  <1> QED
    BY <1>1, <1>2, <1>3, RaiseIInv, LapseIInv DEF Next

-----------------------------------------------------------------------------
(* Index, hashes and callers are well typed for any NPCs, entries and      *)
(* callers (cache.py): only ids that were given out have hashes.           *)
THEOREM TypeCorrect == Spec => []TypeOK
  <1>1. IInv => TypeOK
    BY DEF IInv
  <1> QED
    BY <1>1, InitIInv, NextIInv, PTL DEF Spec

(* However many sets are cut short, every answer that can be found has a   *)
(* time to live (cache.py:150-159). *)
THEOREM AnswersAlwaysExpire == Spec => []ListedEntriesExpire
  <1>1. IInv => ListedEntriesExpire
    BY DEF IInv
  <1> QED
    BY <1>1, InitIInv, NextIInv, PTL DEF Spec

(* Ids leave the index with their hash gone, or with an invalidation that  *)
(* did not list them (cache.py:104-107, 178-187). *)
THEOREM LiveEntriesAlwaysStayListed == Spec => LiveEntriesStayListed
  <1>1. ASSUME IInv, NEW e \in Live, [Next]_vars, e \notin index'[Owner[e]],
               e \in present'
        PROVE  \E c \in Clients : /\ task[c].pc = "dropping" /\ task[c].npc = Owner[e]
                                 /\ e \notin task[c].opened
    <2>1. e \in present /\ e \in index[Owner[e]] /\ Owner[e] \in Npcs
          /\ index \in [Npcs -> SUBSET Entries]
      BY <1>1, CacheAssumption DEF Live, IInv, TypeOK
    <2>2. ASSUME NEW c \in Clients, Unlist(c)
          PROVE  FALSE
      <3>1. task[c].entry \notin present
        BY <1>1, <2>2 DEF Unlist, IInv, TasksOK, UnlistsOK
      <3> QED
        BY <1>1, <2>1, <2>2, <3>1 DEF Unlist
    <2>3. ASSUME NEW c \in Clients, DropIndex(c)
          PROVE  \E d \in Clients : /\ task[d].pc = "dropping" /\ task[d].npc = Owner[e]
                                   /\ e \notin task[d].opened
      <3>1. task[c].pc = "dropping" /\ WipesOK(c) /\ Wipes(c)
        BY <1>1, <2>3 DEF DropIndex, IInv, TasksOK, Wipes
      <3>2. e \notin task[c].opened
        BY <2>1, <3>1 DEF WipesOK
      <3>3. task[c].npc = Owner[e]
        BY <1>1, <2>1, <2>3 DEF DropIndex
      <3> QED
        BY <3>1, <3>2, <3>3
    <2>4. ASSUME NEW c \in Clients, ListEntry(c)
          PROVE  FALSE
      BY <1>1, <2>1, <2>4 DEF ListEntry
    <2>5. index' # index
      BY <1>1, <2>1
    <2>6. PICK c \in Clients : Begin(c) \/ Resume(c) \/ Raise(c)
      BY <1>1, <2>5 DEF Next, Lapse, vars
    <2>7. Unlist(c) \/ DropIndex(c) \/ ListEntry(c)
      BY <2>5, <2>6 DEF Begin, Resume, Raise, BeginGet, BeginSet, BeginInvalidate, ReadEntry,
                        DeleteEntry, SetTimeToLive
    <2> QED
      BY <2>2, <2>3, <2>4, <2>7
  <1>2. IInv /\ [Next]_vars => [UnlistedOnlyWhileOvertaking]_vars
    BY <1>1 DEF UnlistedOnlyWhileOvertaking
  <1> QED
    BY <1>2, InitIInv, NextIInv, PTL DEF Spec, LiveEntriesStayListed

-----------------------------------------------------------------------------
(* The cache implements the one that forgets but never errs. *)

LEMMA WorkStep ==
  ASSUME NEW c \in Clients, NEW t \in Task, IInv, Set(c, t)
  PROVE  [x \in Clients |-> Work(task'[x])] = [[x \in Clients |-> Work(task[x])] EXCEPT ![c] = Work(t)]
  BY StepTask

LEMMA WorkFacts ==
  ASSUME NEW t \in Task
  PROVE  /\ Work(t).npc = t.npc /\ Work(t).query = t.query /\ Work(t).opened = t.opened
         /\ t.pc = "idle" => Work(t) = [op |-> "idle", npc |-> t.npc, query |-> t.query,
                opened |-> t.opened, entry |-> None, answer |-> t.best]
         /\ t.pc \in {"reading", "unlisting"} => Work(t) = [op |-> "get", npc |-> t.npc,
                query |-> t.query, opened |-> t.opened, entry |-> None, answer |-> None]
         /\ t.pc \in {"expiring", "adding"} => Work(t) = [op |-> "set", npc |-> t.npc,
                query |-> t.query, opened |-> t.opened, entry |-> t.entry, answer |-> None]
         /\ t.pc \in {"deleting", "dropping"} => Work(t) = [op |-> "invalidate", npc |-> t.npc,
                query |-> t.query, opened |-> t.opened, entry |-> None, answer |-> None]
  <1>1. t.pc \in {"idle", "reading", "unlisting", "expiring", "adding", "deleting", "dropping"}
    BY DEF Task
  <1>2. CASE t.pc = "idle"
    BY <1>2 DEF Work
  <1>3. CASE t.pc \in {"reading", "unlisting"}
    BY <1>3 DEF Work
  <1>4. CASE t.pc \in {"expiring", "adding"}
    BY <1>4 DEF Work
  <1>5. CASE t.pc \in {"deleting", "dropping"}
    BY <1>5 DEF Work
  <1> QED
    BY <1>1, <1>2, <1>3, <1>4, <1>5

LEMMA LiveLemma ==
  ASSUME NEW n
  PROVE  Promise!LiveOf(n) = LiveOf(n)
  BY DEF Promise!LiveOf, LiveOf

(* An operation that ends with the answer a. *)
LEMMA EndLemma ==
  ASSUME IInv, NEW c \in Clients, NEW a \in Entries \cup {None, Raised}, NEW t \in Task,
         t.npc = task[c].npc, t.query = task[c].query, Set(c, Done(t, a))
  PROVE  Promise!End(c, a)
  <1>1. Done(t, a) \in Task /\ task[c] \in Task
    BY DoneFacts, TaskType
  <1>2. Done(t, a).npc = t.npc /\ Done(t, a).query = t.query /\ Done(t, a).best = a
    BY DoneFacts
  <1>3. Work(Done(t, a)) = [op |-> "idle", npc |-> t.npc, query |-> t.query, opened |-> {},
                            entry |-> None, answer |-> a]
    BY <1>1, <1>2, DoneFacts, WorkFacts
  <1> DEFINE W == [x \in Clients |-> Work(task[x])]
  <1>4. [x \in Clients |-> Work(task'[x])] = [W EXCEPT ![c] = Work(Done(t, a))]
    BY <1>1, WorkStep
  <1>5. W[c].npc = t.npc /\ W[c].query = t.query
    BY <1>1, WorkFacts
  <1>6. [x \in Clients |-> Work(task'[x])]
          = [W EXCEPT ![c] = Promise!Rest(W[c].npc, W[c].query, a)]
    BY <1>3, <1>4, <1>5 DEF Promise!Rest
  <1> QED
    BY <1>6 DEF Promise!End

(* An operation op of c begins with the locals t. *)
LEMMA OpenLemma ==
  ASSUME IInv, NEW c \in Clients, NEW t \in Task, Set(c, t), t.opened = LiveOf(t.npc),
         NEW op, NEW e,
         Work(t) = [op |-> op, npc |-> t.npc, query |-> t.query, opened |-> t.opened,
                    entry |-> e, answer |-> None]
  PROVE  Promise!Open(c, op, t.npc, t.query, e)
  BY WorkStep, LiveLemma DEF Promise!Open

(* The operation of c goes on unseen. *)
LEMMA StutterLemma ==
  ASSUME IInv, NEW c \in Clients, NEW t \in Task, Set(c, t), Work(t) = Work(task[c])
  PROVE  [x \in Clients |-> Work(task'[x])] = [x \in Clients |-> Work(task[x])]
  BY WorkStep

LEMMA LiveSame ==
  ASSUME UNCHANGED <<index, present>>
  PROVE  Live' = Live
  BY DEF Live

Abstractly(c) == Promise!Step(c) \/ UNCHANGED Promise!vars

LEMMA BeginGetImplements ==
  ASSUME IInv, NEW c \in Clients, NEW n \in Npcs, NEW q \in Queries, BeginGet(c, n, q)
  PROVE  Promise!Step(c)
  <1>1. task[c] \in Task /\ task[c].pc = "idle" /\ Promise!Idle(c)
    BY TaskType, WorkFacts DEF BeginGet, Idle, Promise!Idle
  <1>2. Live' = Live /\ used' = used
    BY LiveSame DEF BeginGet
  <1>3. CASE index[n] = {}
    <2>1. Set(c, Blank(n, q)) /\ Blank(n, q) \in Task
      BY <1>3, BlankType DEF BeginGet
    <2>2. Work(Blank(n, q)) = Promise!Rest(n, q, None)
      BY <2>1, WorkFacts DEF Blank, Promise!Rest
    <2>3. Promise!LiveOf(n) = {}
      BY <1>3, LiveLemma DEF LiveOf, Live
    <2> QED
      BY <1>1, <1>2, <2>1, <2>2, <2>3, WorkStep DEF Promise!Step, Promise!MissAtOnce
  <1>4. CASE index[n] # {}
    <2> DEFINE t == [Blank(n, q) EXCEPT !.pc = "reading", !.todo = index[n], !.opened = LiveOf(n)]
    <2>1. LiveOf(n) \subseteq Entries /\ index[n] \subseteq Entries
      BY DEF LiveOf, Live, IInv, TypeOK
    <2>2. Set(c, t) /\ t \in Task
      BY <1>4, <2>1, BlankType DEF BeginGet, Blank, Task
    <2>3. t.npc = n /\ t.query = q /\ t.opened = LiveOf(n) /\ t.pc = "reading"
      BY DEF Blank
    <2> HIDE DEF t
    <2>4. Promise!Open(c, "get", t.npc, t.query, None)
      BY <2>2, <2>3, WorkFacts, OpenLemma
    <2> QED
      BY <1>1, <1>2, <2>3, <2>4 DEF Promise!Step, Promise!OpenLookup
  <1> QED
    BY <1>3, <1>4

LEMMA BeginSetImplements ==
  ASSUME IInv, NEW c \in Clients, NEW e \in Entries, BeginSet(c, e)
  PROVE  Promise!Step(c)
  <1> DEFINE n == Owner[e]
             t == [Blank(n, task[c].query) EXCEPT !.pc = "expiring", !.entry = e,
                                                  !.opened = LiveOf(n)]
  <1>1. task[c] \in Task /\ task[c].pc = "idle" /\ Promise!Idle(c)
    BY TaskType, WorkFacts DEF BeginSet, Idle, Promise!Idle
  <1>2. n \in Npcs /\ task[c].query \in Queries /\ LiveOf(n) \subseteq Entries
    BY <1>1, CacheAssumption DEF Task, LiveOf, Live, IInv, TypeOK
  <1>3. Set(c, t) /\ t \in Task
    BY <1>2, BlankType DEF BeginSet, Blank, Task
  <1>4. /\ t.npc = n /\ t.query = task[c].query /\ t.opened = LiveOf(n) /\ t.pc = "expiring"
        /\ t.entry = e
    BY DEF Blank
  <1> HIDE DEF t
  <1>5. Promise!Open(c, "set", Owner[e], task[c].query, e)
    BY <1>3, <1>4, WorkFacts, OpenLemma
  <1>6. Live' = Live
    <2>1. e \notin index[n]
      BY <1>2 DEF BeginSet, IInv, IndexOwned, Own
    <2> QED
      BY <2>1 DEF BeginSet, Live
  <1>7. e \in Entries \ used /\ used' = used \cup {e}
    BY DEF BeginSet
  <1>8. [x \in Clients |-> Work(task[x])][c].query = task[c].query
    BY <1>1, WorkFacts
  <1> QED
    BY <1>1, <1>5, <1>6, <1>7, <1>8 DEF Promise!Step, Promise!OpenStore

LEMMA BeginInvalidateImplements ==
  ASSUME IInv, NEW c \in Clients, NEW n \in Npcs, BeginInvalidate(c, n)
  PROVE  Promise!Step(c)
  <1> DEFINE t == [Blank(n, task[c].query) EXCEPT
                     !.pc = IF index[n] = {} THEN "dropping" ELSE "deleting",
                     !.todo = index[n], !.opened = LiveOf(n)]
  <1>1. task[c] \in Task /\ task[c].pc = "idle" /\ Promise!Idle(c)
    BY TaskType, WorkFacts DEF BeginInvalidate, Idle, Promise!Idle
  <1>2. LiveOf(n) \subseteq Entries /\ index[n] \subseteq Entries /\ task[c].query \in Queries
    BY <1>1 DEF LiveOf, Live, IInv, TypeOK, Task
  <1>3. Set(c, t) /\ t \in Task
    BY <1>2, BlankType DEF BeginInvalidate, Blank, Task
  <1>4. /\ t.npc = n /\ t.query = task[c].query /\ t.opened = LiveOf(n)
        /\ t.pc \in {"deleting", "dropping"}
    BY DEF Blank
  <1> HIDE DEF t
  <1>5. Promise!Open(c, "invalidate", n, task[c].query, None)
    BY <1>3, <1>4, WorkFacts, OpenLemma
  <1>6. Live' = Live /\ used' = used
    BY LiveSame DEF BeginInvalidate
  <1>7. [x \in Clients |-> Work(task[x])][c].query = task[c].query
    BY <1>1, WorkFacts
  <1> QED
    BY <1>1, <1>5, <1>6, <1>7 DEF Promise!Step, Promise!OpenInvalidation

(* A lookup that goes on with the locals t, or ends with their verdict. *)
LEMMA AdvanceImplements ==
  ASSUME IInv, NEW c \in Clients, Reads(c), NEW t \in Task, Informed(t), Set(c, Advance(t)),
         t.npc = task[c].npc, t.query = task[c].query, t.opened = task[c].opened,
         Live' = Live, used' = used
  PROVE  Abstractly(c)
  <1>1. task[c] \in Task /\ Advance(t) \in Task
    BY TaskType, AdvanceFacts
  <1>2. CASE t.todo # {}
    <2>1. Advance(t).pc = "reading" /\ Advance(t).npc = t.npc /\ Advance(t).query = t.query
          /\ Advance(t).opened = t.opened
      BY <1>2, AdvanceFacts DEF Task
    <2>2. Work(Advance(t)) = Work(task[c])
      BY <1>1, <2>1, WorkFacts DEF Reads
    <2> QED
      BY <1>1, <2>2, StutterLemma DEF Abstractly, Promise!vars
  <1>3. CASE t.todo = {}
    <2> DEFINE a == Verdict(t)
               w == [x \in Clients |-> Work(task[x])][c]
    <2>1. a \in Entries \cup {None, Raised} /\ Set(c, Done(t, a))
      BY <1>3, AdvanceFacts DEF Verdict, Task
    <2>2. Promise!End(c, a)
      BY <2>1, EndLemma
    <2>3. w.op = "get" /\ w.opened = t.opened /\ w.query = t.query
      BY <1>1, WorkFacts DEF Reads
    <2>4. Live \subseteq present
      BY DEF Live
    <2>5. \A f \in t.opened \cap Live : Sim[t.query][f] <= t.level
      BY <1>3, <2>4 DEF Informed
    <2>6. /\ t.query \in Queries /\ t.opened \subseteq Entries /\ t.level \in Int
          /\ \A f \in Entries : Sim[t.query][f] \in Int
      BY CacheAssumption DEF Task
    <2>7. t.level > 0 => \E g \in Entries : Decides(g, t)
      BY DEF Informed
    <2>8. CASE t.level >= Threshold /\ t.best # None
      <3>1. /\ a = t.best /\ a \in t.opened /\ a \notin Unreadable
            /\ Sim[t.query][a] > 0 /\ Sim[t.query][a] <= t.level
        BY <2>8 DEF Verdict, Informed
      <3>2. PICK g \in Entries : Decides(g, t)
        BY <2>6, <2>7, <3>1
      <3>3. g \in t.opened /\ Promise!CloseEnough(t.query, g)
            /\ \A f \in t.opened \cap Live : Sim[t.query][f] <= Sim[t.query][g]
        BY <2>5, <2>6, <2>8, <3>1, <3>2 DEF Promise!CloseEnough, Decides
      <3>4. Promise!AnswersFor(a, g, t.query)
        BY <2>8, <3>1, <3>2 DEF Promise!AnswersFor, Decides
      <3> HIDE DEF a, w
      <3>5. Promise!Hit(c)
        BY <2>2, <2>3, <3>1, <3>3, <3>4 DEF Promise!Hit, w
      <3> QED
        BY <3>5 DEF Abstractly, Promise!Step
    <2>9. CASE t.best = None \/ t.level < Threshold
      <3>1. a = None
        BY <2>6, <2>9, CacheAssumption DEF Verdict
      <3>2. ASSUME NEW f \in t.opened \cap Live, Promise!CloseEnough(t.query, f)
            PROVE  \E g \in t.opened \cap Unreadable : Sim[t.query][g] >= Sim[t.query][f]
        <4>1. Sim[t.query][f] > 0 /\ Sim[t.query][f] >= Threshold /\ Sim[t.query][f] <= t.level
          BY <2>5, <3>2 DEF Promise!CloseEnough
        <4>2. PICK g \in Entries : Decides(g, t)
          BY <2>6, <2>7, <4>1
        <4>3. t.best = None
          BY <2>6, <2>9, <4>1, CacheAssumption
        <4>4. g \in Unreadable
          BY <4>2, <4>3, CacheAssumption DEF Decides
        <4> QED
          BY <4>1, <4>2, <4>4 DEF Decides
      <3> HIDE DEF a, w
      <3>3. Promise!Miss(c)
        BY <2>2, <2>3, <3>1, <3>2 DEF Promise!Miss, w
      <3> QED
        BY <3>3 DEF Abstractly, Promise!Step
    <2> QED
      BY <2>6, <2>8, <2>9, CacheAssumption
  <1> QED
    BY <1>2, <1>3

LEMMA GetImplements ==
  ASSUME IInv, NEW c \in Clients, Unlist(c) \/ \E e \in Entries : ReadEntry(c, e)
  PROVE  Abstractly(c)
  <1>1. CASE Unlist(c)
    <2>1. Reads(c) /\ task[c].entry \notin present /\ used' = used
      BY <1>1 DEF Unlist, Reads, IInv, TasksOK, UnlistsOK
    <2>2. Live' = Live
      <3>1. \A e \in present : Owner[e] \in Npcs /\ (e \in index'[Owner[e]] <=> e \in index[Owner[e]])
        BY <1>1, <2>1, CacheAssumption DEF Unlist, IInv, TypeOK
      <3>2. present' = present
        BY <1>1 DEF Unlist
      <3> QED
        BY <3>1, <3>2 DEF Live
    <2> QED
      BY <1>1, <2>1, <2>2, UnlistNext, AdvanceImplements
  <1>2. ASSUME NEW e \in Entries, ReadEntry(c, e)
        PROVE  Abstractly(c)
    <2>1. Reads(c) /\ Live' = Live /\ used' = used
      BY <1>2, LiveSame DEF ReadEntry, Reads
    <2>2. CASE e \in present
      BY <1>2, <2>1, <2>2, ReadEntryNext, AdvanceImplements
    <2>3. CASE e \notin present
      <3> DEFINE t == [task[c] EXCEPT !.pc = "unlisting", !.entry = e]
      <3>1. task[c] \in Task /\ task[c].pc = "reading" /\ Set(c, t) /\ t \in Task
        BY <1>2, <2>3, TaskType DEF ReadEntry, Task
      <3>2. /\ t.pc = "unlisting" /\ t.npc = task[c].npc /\ t.query = task[c].query
            /\ t.opened = task[c].opened
        BY <3>1 DEF Task
      <3> HIDE DEF t
      <3>3. Work(t) = Work(task[c])
        BY <3>1, <3>2, WorkFacts
      <3> QED
        BY <2>1, <3>1, <3>3, StutterLemma DEF Abstractly, Promise!vars
    <2> QED
      BY <2>2, <2>3
  <1> QED
    BY <1>1, <1>2

LEMMA SetImplements ==
  ASSUME IInv, NEW c \in Clients, SetTimeToLive(c) \/ ListEntry(c)
  PROVE  Abstractly(c)
  <1>1. task[c] \in Task
    BY TaskType
  <1>2. CASE SetTimeToLive(c)
    <2> DEFINE t == [task[c] EXCEPT !.pc = "adding"]
    <2>1. Set(c, t) /\ t \in Task /\ task[c].pc = "expiring"
      BY <1>1, <1>2 DEF SetTimeToLive, Task
    <2>2. /\ t.pc = "adding" /\ t.npc = task[c].npc /\ t.query = task[c].query
          /\ t.opened = task[c].opened /\ t.entry = task[c].entry
      BY <1>1 DEF Task
    <2> HIDE DEF t
    <2>3. Work(t) = Work(task[c])
      BY <1>1, <2>1, <2>2, WorkFacts
    <2>4. Live' = Live /\ used' = used
      BY <1>2, LiveSame DEF SetTimeToLive
    <2> QED
      BY <2>1, <2>3, <2>4, StutterLemma DEF Abstractly, Promise!vars
  <1>3. CASE ListEntry(c)
    <2> DEFINE e == task[c].entry
    <2>1. task[c].pc = "adding" /\ Sets(c) /\ task[c].npc \in Npcs /\ Owner[e] = task[c].npc
      BY <1>1, <1>3, SetsFacts DEF ListEntry, Sets, Task
    <2>2. Set(c, Done(task[c], None)) /\ used' = used /\ present' = present
      BY <1>3 DEF ListEntry
    <2>3. Promise!End(c, None)
      BY <1>1, <2>2, EndLemma
    <2>4. \A f \in present : f \in index'[Owner[f]] <=> f = e \/ f \in index[Owner[f]]
      <3>1. \A f \in present : Owner[f] \in Npcs
        BY CacheAssumption DEF IInv, TypeOK
      <3>2. \A f \in present : f \in index[Owner[f]] => f \in index'[Owner[f]]
        BY <1>3, <2>1, <3>1 DEF ListEntry, IInv, TypeOK
      <3>3. e \in index'[Owner[e]]
        BY <1>3, <2>1 DEF ListEntry, IInv, TypeOK
      <3>4. \A f \in present : f # e /\ f \in index'[Owner[f]] => f \in index[Owner[f]]
        BY <1>3, <2>1, <3>1 DEF ListEntry, IInv, TypeOK
      <3> QED
        BY <3>2, <3>3, <3>4
    <2>5. Live' = Live \cup {e} \/ Live' = Live
      BY <2>2, <2>4 DEF Live
    <2>6. /\ [x \in Clients |-> Work(task[x])][c].op = "set"
          /\ [x \in Clients |-> Work(task[x])][c].entry = e
      BY <1>1, <2>1, WorkFacts
    <2> QED
      BY <2>2, <2>3, <2>5, <2>6 DEF Abstractly, Promise!Step, Promise!Store
  <1> QED
    BY <1>2, <1>3

LEMMA InvalidateImplements ==
  ASSUME IInv, NEW c \in Clients, DropIndex(c) \/ \E e \in Entries : DeleteEntry(c, e)
  PROVE  Abstractly(c) \/ Promise!Forget
  <1>1. task[c] \in Task
    BY TaskType
  <1>2. CASE DropIndex(c)
    <2> DEFINE n == task[c].npc
               w == [x \in Clients |-> Work(task[x])][c]
    <2>1. /\ task[c].pc = "dropping" /\ n \in Npcs /\ used' = used /\ present' = present
          /\ index' = [index EXCEPT ![n] = {}]
      BY <1>1, <1>2 DEF DropIndex, Task
    <2>2. Promise!End(c, None)
      BY <1>1, <1>2, EndLemma DEF DropIndex
    <2>3. w.op = "invalidate" /\ w.npc = n /\ w.opened = task[c].opened
      BY <1>1, <2>1, WorkFacts
    <2>4. \A e \in present : e \in index'[Owner[e]] <=> Owner[e] # n /\ e \in index[Owner[e]]
      BY <2>1, CacheAssumption DEF IInv, TypeOK
    <2>5. Live \ LiveOf(n) \subseteq Live' /\ Live' \subseteq Live
      BY <2>1, <2>4 DEF Live, LiveOf
    <2>6. task[c].opened \cap Live' = {}
      <3>1. task[c].opened \subseteq Own(n)
        BY <2>1 DEF IInv, TasksOK, WipesOK, Wipes
      <3> QED
        BY <2>1, <2>4, <3>1 DEF Live, Own
    <2>7. Promise!LiveOf(n) = LiveOf(n)
      BY LiveLemma
    <2> HIDE DEF n, w
    <2>8. Promise!EndInvalidation(c)
      BY <2>1, <2>2, <2>3, <2>5, <2>6, <2>7 DEF Promise!EndInvalidation, w
    <2> QED
      BY <2>8 DEF Abstractly, Promise!Step
  <1>3. ASSUME NEW e \in Entries, DeleteEntry(c, e)
        PROVE  Promise!Forget
    <2> DEFINE t == [task[c] EXCEPT !.todo = @ \ {e},
                       !.pc = IF task[c].todo = {e} THEN "dropping" ELSE "deleting"]
    <2>1. Set(c, t) /\ t \in Task /\ task[c].pc = "deleting"
      BY <1>1, <1>3 DEF DeleteEntry, Task
    <2>2. /\ t.pc \in {"deleting", "dropping"} /\ t.npc = task[c].npc /\ t.query = task[c].query
          /\ t.opened = task[c].opened
      BY <1>1 DEF Task
    <2> HIDE DEF t
    <2>3. Work(t) = Work(task[c])
      BY <1>1, <2>1, <2>2, WorkFacts
    <2>4. Live' \subseteq Live /\ used' = used
      BY <1>3 DEF DeleteEntry, Live
    <2> QED
      BY <2>1, <2>3, <2>4, StutterLemma DEF Promise!Forget
  <1> QED
    BY <1>2, <1>3

LEMMA RaiseImplements ==
  ASSUME IInv, NEW c \in Clients, Raise(c)
  PROVE  Promise!Step(c)
  <1>1. task[c] \in Task
    BY TaskType
  <1>2. Live' = Live /\ used' = used /\ task[c].pc # "idle"
    BY LiveSame DEF Raise, Idle
  <1>3. Promise!End(c, Raised)
    BY <1>1, EndLemma DEF Raise
  <1>4. Work(task[c]).op # "idle"
    BY <1>1, <1>2, WorkFacts DEF Task
  <1>5. ~Promise!Idle(c)
    BY <1>4 DEF Promise!Idle
  <1> QED
    BY <1>2, <1>3, <1>5 DEF Promise!Step, Promise!Raise

LEMMA LapseImplements ==
  ASSUME NEW e \in Entries, Lapse(e)
  PROVE  Promise!Forget
  BY DEF Lapse, Live, Promise!Forget

LEMMA InitImplements == Init => Promise!Init
  <1> SUFFICES ASSUME Init PROVE Promise!Init
    OBVIOUS
  <1>1. PICK n \in Npcs, q \in Queries : task = [c \in Clients |-> Blank(n, q)]
    BY DEF Init
  <1>2. Work(Blank(n, q)) = Promise!Rest(n, q, None)
    BY BlankType, WorkFacts DEF Blank, Promise!Rest
  <1>3. Live = {} /\ used = {}
    BY DEF Init, Live
  <1>4. [c \in Clients |-> Work(task[c])] = [c \in Clients |-> Promise!Rest(n, q, None)]
    BY <1>1, <1>2
  <1> QED
    BY <1>3, <1>4 DEF Promise!Init

LEMMA NextImplements == IInv /\ [Next]_vars => [Promise!Next]_(Promise!vars)
  <1> SUFFICES ASSUME IInv, [Next]_vars PROVE Promise!Next \/ UNCHANGED Promise!vars
    OBVIOUS
  <1>1. CASE UNCHANGED vars
    BY <1>1 DEF vars, Live, Promise!vars
  <1>2. ASSUME NEW c \in Clients, Begin(c)
        PROVE  Promise!Step(c)
    BY <1>2, BeginGetImplements, BeginSetImplements, BeginInvalidateImplements DEF Begin
  <1>3. ASSUME NEW c \in Clients, Resume(c)
        PROVE  Abstractly(c) \/ Promise!Forget
    BY <1>3, GetImplements, SetImplements, InvalidateImplements DEF Resume
  <1>4. ASSUME NEW c \in Clients, Raise(c)
        PROVE  Promise!Step(c)
    BY <1>4, RaiseImplements
  <1>5. ASSUME NEW e \in Entries, Lapse(e)
        PROVE  Promise!Forget
    BY <1>5, LapseImplements
  <1>6. CASE \E c \in Clients : Begin(c) \/ Resume(c) \/ Raise(c)
    <2>1. PICK c \in Clients : Begin(c) \/ Resume(c) \/ Raise(c)
      BY <1>6
    <2>2. Promise!Step(c) \/ Promise!Forget \/ UNCHANGED Promise!vars
      BY <2>1, <1>2, <1>3, <1>4 DEF Abstractly
    <2> QED
      BY <2>2 DEF Promise!Next
  <1>7. CASE \E e \in Entries : Lapse(e)
    BY <1>5, <1>7 DEF Promise!Next
  <1> QED
    BY <1>1, <1>6, <1>7 DEF Next

(* ImplementsForgetfulCache, for any NPCs, entries, callers and threshold: *)
(* whatever other callers, expiry and Redis errors do between the reads of *)
(* a lookup, what it answers with was stored for its NPC and is close      *)
(* enough, no better answer was there all the time, and nothing that was   *)
(* there when an invalidation began is found once it has ended. What it    *)
(* says of closeness names the exception the code makes, an entry whose    *)
(* response does not decode (cache.py:113-118).                            *)
THEOREM ImplementsPromise == Spec => ImplementsForgetfulCache
  BY InitIInv, NextIInv, InitImplements, NextImplements, PTL
     DEF Spec, ImplementsForgetfulCache, Promise!Spec

-----------------------------------------------------------------------------
(* get returns a response "if a match is found above the threshold,        *)
(* otherwise None" (cache.py:84-86).                                       *)
HitsReachThreshold ==
  \A c \in Clients :
    Idle(c) /\ task[c].best \in Entries => Sim[task[c].query][task[c].best] >= Threshold

(* A step of c leaves the answers of others as they were. *)
LEMMA HitsOfOne ==
  ASSUME IInv, HitsReachThreshold, NEW c \in Clients, NEW t \in Task, Set(c, t),
         t.pc = "idle" /\ t.best \in Entries => Sim[t.query][t.best] >= Threshold
  PROVE  HitsReachThreshold'
  <1>1. task'[c] = t /\ \A x \in Clients \ {c} : task'[x] = task[x]
    BY StepTask
  <1> QED
    BY <1>1 DEF HitsReachThreshold, Idle

LEMMA HitsOnAdvance ==
  ASSUME IInv, HitsReachThreshold, Unreadable = {}, NEW c \in Clients, NEW t \in Task,
         Informed(t), Set(c, Advance(t))
  PROVE  HitsReachThreshold'
  <1>1. Advance(t) \in Task
    BY AdvanceFacts
  <1>2. CASE t.todo # {}
    <2>1. Advance(t).pc = "reading"
      BY <1>2, AdvanceFacts DEF Task
    <2> QED
      BY <1>1, <2>1, HitsOfOne
  <1>3. CASE t.todo = {}
    <2>1. Verdict(t) \in Entries \cup {None, Raised}
      BY DEF Verdict, Task
    <2>2. Advance(t).best = Verdict(t) /\ Advance(t).query = t.query
      BY <1>3, <2>1, AdvanceFacts, DoneFacts
    <2>3. ASSUME Verdict(t) \in Entries
          PROVE  Sim[t.query][Verdict(t)] >= Threshold
      <3>1. Verdict(t) = t.best /\ t.level >= Threshold /\ t.best # None
        BY <2>3, CacheAssumption DEF Verdict
      <3>2. t.query \in Queries /\ t.level \in Int /\ t.best \in Entries
        BY <2>3, <3>1 DEF Task
      <3>3. Sim[t.query][t.best] \in Int /\ Threshold \in Int
        BY <3>2, CacheAssumption
      <3>4. t.level > 0
        BY <3>1, <3>2, <3>3 DEF Informed
      <3>5. PICK g \in Entries : Decides(g, t)
        BY <3>4 DEF Informed
      <3> QED
        BY <3>1, <3>5 DEF Decides
    <2> QED
      BY <1>1, <2>2, <2>3, HitsOfOne
  <1> QED
    BY <1>2, <1>3

LEMMA HitsStep ==
  ASSUME IInv, HitsReachThreshold, Unreadable = {}, [Next]_vars
  PROVE  HitsReachThreshold'
  <1>1. CASE UNCHANGED vars
    BY <1>1 DEF vars, HitsReachThreshold, Idle
  <1>2. ASSUME NEW e \in Entries, Lapse(e)
        PROVE  HitsReachThreshold'
    BY <1>2 DEF Lapse, HitsReachThreshold, Idle
  <1>3. ASSUME NEW c \in Clients, NEW n \in Npcs, NEW q \in Queries, BeginGet(c, n, q)
        PROVE  HitsReachThreshold'
    <2> DEFINE t == IF index[n] = {} THEN Blank(n, q)
                    ELSE [Blank(n, q) EXCEPT !.pc = "reading", !.todo = index[n],
                                             !.opened = LiveOf(n)]
    <2>1. LiveOf(n) \subseteq Entries /\ index[n] \subseteq Entries
      BY DEF LiveOf, Live, IInv, TypeOK
    <2>2. t \in Task /\ Set(c, t) /\ t.best \notin Entries
      BY <1>3, <2>1, BlankType, CacheAssumption DEF BeginGet, Blank, Task
    <2> HIDE DEF t
    <2> QED
      BY <2>2, HitsOfOne
  <1>4. ASSUME NEW c \in Clients, NEW e \in Entries, BeginSet(c, e)
        PROVE  HitsReachThreshold'
    <2> DEFINE t == [Blank(Owner[e], task[c].query) EXCEPT !.pc = "expiring", !.entry = e,
                                                           !.opened = LiveOf(Owner[e])]
    <2>1. /\ Owner[e] \in Npcs /\ task[c].query \in Queries
          /\ LiveOf(Owner[e]) \subseteq Entries
      BY TaskType, CacheAssumption DEF Task, LiveOf, Live, IInv, TypeOK
    <2>2. t \in Task /\ Set(c, t) /\ t.best \notin Entries
      BY <1>4, <2>1, BlankType, CacheAssumption DEF BeginSet, Blank, Task
    <2> HIDE DEF t
    <2> QED
      BY <2>2, HitsOfOne
  <1>5. ASSUME NEW c \in Clients, NEW n \in Npcs, BeginInvalidate(c, n)
        PROVE  HitsReachThreshold'
    <2> DEFINE t == [Blank(n, task[c].query) EXCEPT
                       !.pc = IF index[n] = {} THEN "dropping" ELSE "deleting",
                       !.todo = index[n], !.opened = LiveOf(n)]
    <2>1. LiveOf(n) \subseteq Entries /\ index[n] \subseteq Entries /\ task[c].query \in Queries
      BY TaskType DEF LiveOf, Live, IInv, TypeOK, Task
    <2>2. t \in Task /\ Set(c, t) /\ t.best \notin Entries
      BY <1>5, <2>1, BlankType, CacheAssumption DEF BeginInvalidate, Blank, Task
    <2> HIDE DEF t
    <2> QED
      BY <2>2, HitsOfOne
  <1>6. ASSUME NEW c \in Clients, NEW e \in Entries, ReadEntry(c, e)
        PROVE  HitsReachThreshold'
    <2>1. CASE e \in present
      BY <1>6, <2>1, ReadEntryNext, HitsOnAdvance
    <2>2. CASE e \notin present
      <3> DEFINE t == [task[c] EXCEPT !.pc = "unlisting", !.entry = e]
      <3>1. t \in Task /\ Set(c, t) /\ t.pc # "idle"
        BY <1>6, <2>2, TaskType DEF ReadEntry, Task
      <3> HIDE DEF t
      <3> QED
        BY <3>1, HitsOfOne
    <2> QED
      BY <2>1, <2>2
  <1>7. ASSUME NEW c \in Clients, Unlist(c)
        PROVE  HitsReachThreshold'
    BY <1>7, UnlistNext, HitsOnAdvance
  <1>8. ASSUME NEW c \in Clients, SetTimeToLive(c)
        PROVE  HitsReachThreshold'
    <2> DEFINE t == [task[c] EXCEPT !.pc = "adding"]
    <2>1. t \in Task /\ Set(c, t) /\ t.pc # "idle"
      BY <1>8, TaskType DEF SetTimeToLive, Task
    <2> HIDE DEF t
    <2> QED
      BY <2>1, HitsOfOne
  <1>9. ASSUME NEW c \in Clients, ListEntry(c) \/ DropIndex(c) \/ Raise(c)
        PROVE  HitsReachThreshold'
    <2>1. PICK a \in {None, Raised} : Set(c, Done(task[c], a))
      BY <1>9 DEF ListEntry, DropIndex, Raise
    <2>2. Done(task[c], a) \in Task /\ Done(task[c], a).best \notin Entries
      BY TaskType, DoneFacts, CacheAssumption
    <2> QED
      BY <2>1, <2>2, HitsOfOne
  <1>10. ASSUME NEW c \in Clients, NEW e \in Entries, DeleteEntry(c, e)
         PROVE  HitsReachThreshold'
    <2> DEFINE t == [task[c] EXCEPT !.todo = @ \ {e},
                       !.pc = IF task[c].todo = {e} THEN "dropping" ELSE "deleting"]
    <2>1. t \in Task /\ Set(c, t) /\ t.pc # "idle"
      BY <1>10, TaskType DEF DeleteEntry, Task
    <2> HIDE DEF t
    <2> QED
      BY <2>1, HitsOfOne
  <1> QED
    BY <1>1, <1>2, <1>3, <1>4, <1>5, <1>6, <1>7, <1>8, <1>9, <1>10 DEF Next, Begin, Resume

(* HitsReachThreshold as long as every stored response decodes, as those   *)
(* of set do: get then returns nothing below the threshold                 *)
(* (cache.py:84-86, 113-120), whatever happens between its reads. Without  *)
(* the hypothesis it fails: one of two entries does not decode, and its    *)
(* similarity stays with the other.                                        *)
THEOREM ReadableHitsReachThreshold ==
  ASSUME Unreadable = {}
  PROVE  Spec => []HitsReachThreshold
  <1>1. Init => HitsReachThreshold
    <2> SUFFICES ASSUME Init PROVE HitsReachThreshold
      OBVIOUS
    <2>1. PICK n \in Npcs, q \in Queries : task = [c \in Clients |-> Blank(n, q)]
      BY DEF Init
    <2> QED
      BY <2>1, CacheAssumption DEF HitsReachThreshold, Blank
  <1>2. IInv /\ HitsReachThreshold /\ [Next]_vars => HitsReachThreshold'
    BY HitsStep
  <1> QED
    BY <1>1, <1>2, InitIInv, NextIInv, PTL DEF Spec
=============================================================================
