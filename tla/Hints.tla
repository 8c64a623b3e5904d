------------------------------- MODULE Hints -------------------------------
(***************************************************************************)
(* Answers from the knowledge base: the hybrid search of                   *)
(* src/rag/retriever.py and the hints that src/quest/hint_engine.py makes  *)
(* of it, with the quest tracker, while ingestions change the collection.  *)
(*                                                                         *)
(* A search runs on the event loop without an await, but an ingestion in   *)
(* its worker thread may store chunks between the vector search and the    *)
(* reading of the collection for the keyword index. Scores are not         *)
(* modelled: any chunks of the right number may come out on top.           *)
(***************************************************************************)
EXTENDS Knowledge, Quest

CONSTANTS
  Quests,     \* quest ids
  About,      \* the files whose doc_id contains each quest id
  Lead,       \* the first 200 characters of each text
  Reports,    \* bound: the progress values reported
  SearchTypes,\* bound: the document types conversations search
  TopK,       \* settings.TOP_K
  HintTopK    \* top_k of get_hint_context

Conversation == "conversation"

ASSUME HintsAssumption ==
  /\ Conversation \notin Quests
  /\ About \in [Quests -> SUBSET Docs]
  /\ Texts \subseteq DOMAIN Lead
  /\ Reports \subseteq Int
  /\ TopK \in Nat \ {0} /\ HintTopK \in Nat \ {0}

VARIABLES
  tracker,  \* the entry of each quest
  index,    \* _bm25_documents
  search,   \* the search under way
  answer    \* what the last search returned to its caller

hintVars == <<tracker, index, search, answer>>
vars == <<knowledgeVars, hintVars>>

NoSearch == [pc |-> "idle", caller |-> Conversation, type |-> "quest", reach |-> 0,
             found |-> {}]

HintsTypeOK ==
  /\ tracker \in [Quests -> Entry]
  /\ index \subseteq Chunk
  /\ search \in [pc : {"idle", "vector"}, caller : Quests \cup {Conversation},
                 type : SearchTypes \cup {"quest"}, reach : Nat, found : SUBSET Chunk]
  /\ answer \subseteq Chunk

HintsInit ==
  /\ Init
  /\ tracker = [q \in Quests |-> NotStarted]
  /\ index = {}
  /\ search = NoSearch
  /\ answer = {}

-----------------------------------------------------------------------------
(* The tracker. *)

StartQuest(q) ==
  /\ server = "up" /\ search.pc = "idle"
  /\ tracker' = [tracker EXCEPT ![q] = Started]
  /\ UNCHANGED <<knowledgeVars, index, search, answer>>

ReportProgress(q, p) ==
  /\ server = "up" /\ search.pc = "idle"
  /\ tracker' = [tracker EXCEPT ![q] = UpdateProgress(@, p)]
  /\ UNCHANGED <<knowledgeVars, index, search, answer>>

CompleteQuest(q) ==
  /\ server = "up" /\ search.pc = "idle"
  /\ tracker' = [tracker EXCEPT ![q] = Completed]
  /\ UNCHANGED <<knowledgeVars, index, search, answer>>

-----------------------------------------------------------------------------
(* The search. *)

OfType(chunks, type) == {c \in chunks : DocType[c.doc] = type}
Leads(chunks) == {Lead[c.text] : c \in chunks}

Limit(caller) == IF caller = Conversation THEN TopK ELSE 3 * HintTopK

(* _vector_search: the nearest candidates of the type, by id.              *)
Nearest(type, limit) ==
  LET ids == {id \in DOMAIN collection : DocType[collection[id].doc] = type} IN
    {{collection[id] : id \in S} :
       S \in {T \in SUBSET ids :
                Cardinality(T) = IF Cardinality(ids) < limit THEN Cardinality(ids) ELSE limit}}

VectorSearch(caller, type, reach) ==
  /\ server = "up" /\ search.pc = "idle"
  /\ \E found \in Nearest(type, 3 * Limit(caller)) :
       search' = [pc |-> "vector", caller |-> caller, type |-> type, reach |-> reach,
                  found |-> found]
  /\ answer' = {}
  /\ UNCHANGED <<knowledgeVars, tracker, index>>

(* A conversation looks a document type up.                                *)
Ask(type) == VectorSearch(Conversation, type, 0)

(* get_hint_context: no search without reach.                              *)
AskHint(q) == Reach(tracker[q]) > 0 /\ VectorSearch(q, "quest", Reach(tracker[q]))

(* mutant: an index that was built is kept.                                *)
BuiltIndexOnce(type) == IF index # {} \/ collection = << >> THEN index ELSE OfType(Stored, type)

(* _build_bm25_index, rebuilt in every search; an empty collection leaves  *)
(* the index as it was.                                                    *)
BuiltIndex(type) == IF collection = << >> THEN index ELSE OfType(Stored, type)

(* The merge of the vector search's chunks with those of the index that    *)
(* match the query, one per lead, where the vector search's comes first,   *)
(* cut to the limit.                                                       *)
Merged(found, indexed, limit) ==
  {R \in SUBSET (found \cup indexed) :
     /\ \A c, d \in R : Lead[c.text] = Lead[d.text] => c = d
     /\ \A c \in R \ found : Lead[c.text] \notin Leads(found)
     /\ Cardinality(R) <= limit
     /\ Cardinality(R) >= limit \/ Leads(found) \subseteq Leads(R)}

(* mutant: a hint is cut to its number but not to the player's reach.      *)
HintsAmongAll(R, q, reach) ==
  LET told == {c \in R : c.doc \in About[q]} IN
    {H \in SUBSET told :
       Cardinality(H) = IF Cardinality(told) < HintTopK THEN Cardinality(told) ELSE HintTopK}

(* get_hint_context: of the results, those of the quest within reach, cut  *)
(* to top_k.                                                               *)
HintsAmong(R, q, reach) ==
  LET told == {c \in R : c.doc \in About[q] /\ c.stage <= reach} IN
    {H \in SUBSET told :
       Cardinality(H) = IF Cardinality(told) < HintTopK THEN Cardinality(told) ELSE HintTopK}

FinishSearch ==
  /\ search.pc = "vector"
  /\ index' = BuiltIndex(search.type)
  /\ \E R \in Merged(search.found, index', Limit(search.caller)) :
       IF search.caller = Conversation THEN answer' = R
       ELSE answer' \in HintsAmong(R, search.caller, search.reach)
  /\ search' = NoSearch
  /\ UNCHANGED <<knowledgeVars, tracker>>

(* The embedding model or the collection raises.                           *)
SearchFails ==
  /\ search.pc = "vector"
  /\ search' = NoSearch
  /\ UNCHANGED <<knowledgeVars, tracker, index, answer>>

(* What the process holds is lost with it.                                 *)
LoseProcess ==
  /\ Crash
  /\ tracker' = [q \in Quests |-> NotStarted]
  /\ index' = {}
  /\ search' = NoSearch
  /\ answer' = {}

HintsNext ==
  \/ \E d \in Docs : Edit(d) /\ UNCHANGED hintVars
  \/ Boot /\ UNCHANGED hintVars
  \/ \E j \in Reloads : RequestReload(j) /\ UNCHANGED hintVars
  \/ \E j \in Pipelines : Ingest(j) /\ UNCHANGED hintVars
  \/ LoseProcess
  \/ \E q \in Quests : StartQuest(q) \/ CompleteQuest(q) \/ AskHint(q)
  \/ \E q \in Quests, p \in Reports : ReportProgress(q, p)
  \/ \E t \in SearchTypes : Ask(t)
  \/ FinishSearch
  \/ SearchFails

HintsSpec == HintsInit /\ [][HintsNext]_vars

-----------------------------------------------------------------------------
Answered == search.pc = "vector" /\ search'.pc = "idle" /\ server' = "up"

(* What a search returns is of the type it was asked for and was in the    *)
(* collection while it ran, whatever ingestions stored meanwhile and       *)
(* whatever the retriever searched before, and no two results have the     *)
(* same lead.                                                              *)
AnswersAreCurrent ==
  [][Answered => \A c \in answer' :
       /\ DocType[c.doc] = search.type
       /\ c \in search.found \cup Stored
       /\ \A d \in answer' : Lead[c.text] = Lead[d.text] => c = d]_vars

(* A hint is a section that some version of one of the quest's files, none *)
(* newer than the disk's, had at that stage, and the stage is within the   *)
(* reach of the player's progress.                                         *)
HintsAreReached ==
  [][Answered /\ search.caller \in Quests => \A c \in answer' :
       /\ c.doc \in About[search.caller]
       /\ c.stage <= Reach(tracker[search.caller])
       /\ \E v \in 1 .. disk[c.doc] : \E i \in DOMAIN ChunksOf(c.doc, v) :
            ChunksOf(c.doc, v)[i] = c]_vars
=============================================================================
