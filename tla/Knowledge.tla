----------------------------- MODULE Knowledge -----------------------------
(***************************************************************************)
(* The knowledge base: worldbuilding files on disk, the pipeline that      *)
(* chunks them and upserts the chunks into the ChromaDB collection         *)
(* (src/rag/ingestion.py, src/rag/chunker.py), at start-up                 *)
(* (src/api/main.py) and in a worker thread for every admin reload         *)
(* (src/api/routes/admin.py), and the persona registry replaced at the     *)
(* end. Authors save files at any time, reloads overlap, a pipeline may    *)
(* raise anywhere, and the server may stop between two batches.            *)
(*                                                                         *)
(* A file is known by its versions, numbered in the order the authors      *)
(* save them; a version is the sequence of its sections.                   *)
(***************************************************************************)
EXTENDS Integers, Sequences, FiniteSets

CONSTANTS
  Docs,       \* the markdown files
  Files,      \* the files as discover_files sorts them
  DocType,    \* detect_doc_type of each file
  Titles,     \* titles of sections
  Untitled,   \* the title of what stands before the first ## header
  Texts,      \* contents of sections
  Versions,   \* the versions of each file
  Reloads,    \* bound: the reloads an administrator requests
  BatchSize   \* batch_size of store_chunks

Section == [title : Titles, text : Texts]

ASSUME KnowledgeAssumption ==
  /\ Files \in Seq(Docs) /\ Files # <<>>
  /\ \A d \in Docs : \E n \in DOMAIN Files : Files[n] = d
  /\ DocType \in [Docs -> {"lore", "npc", "quest", "item"}]
  /\ Untitled \in Titles
  /\ Versions \in [Docs -> Seq(Seq(Section))]
  /\ \A d \in Docs : Len(Versions[d]) > 0
  /\ BatchSize \in Nat \ {0}

VARIABLES
  disk,        \* the version of each file on disk
  collection,  \* the ChromaDB collection: the chunk stored under each id
  job,         \* the pipelines: one at start-up, one per reload
  server,      \* "down", "starting" or "up"
  registry,    \* the version each NPC's persona was read from, 0 for none
  synced       \* history: an undisturbed ingestion has ended since the last edit

knowledgeVars == <<disk, collection, job, server, registry, synced>>

Pipelines == Reloads \cup {"startup"}

NpcDocs == {d \in Docs : DocType[d] = "npc"}
NoPersonas == [d \in NpcDocs |-> 0]

-----------------------------------------------------------------------------
(* Chunking: one chunk per section, which is what stands under a ## header *)
(* of a profile or quest, a ### header of an item list, or a split of lore *)
(* text. Quest chunks carry a stage, the number of headers so far; the     *)
(* other types have none, which is read as 0.                              *)

Stage(d, version, i) ==
  IF DocType[d] = "quest"
  THEN Cardinality({k \in 1 .. i : version[k].title # Untitled})
  ELSE 0

ChunksOf(d, v) ==
  LET version == Versions[d][v] IN
    [i \in 1 .. Len(version) |->
       [doc |-> d, section |-> version[i].title, stage |-> Stage(d, version, i),
        text |-> version[i].text]]

Chunk == [doc : Docs, section : Titles, stage : Nat, text : Texts]

(* mutant: the section alone tells the chunks of a file apart.             *)
ChunkIdBySection(c, i) == <<c.doc, c.section>>

(* The id of the i-th chunk of all files. *)
ChunkId(c, i) == <<c.doc, c.section, i>>

(* collection.upsert: new chunks replace those of the same id, and nothing *)
(* is ever deleted.                                                        *)
Upsert(stored, chunks, from, to) ==
  LET ids == {ChunkId(chunks[i], i) : i \in from .. to} IN
    [id \in DOMAIN stored \cup ids |->
       IF id \in ids
       THEN chunks[CHOOSE i \in from .. to : ChunkId(chunks[i], i) = id]
       ELSE stored[id]]

Stored == {collection[id] : id \in DOMAIN collection}

-----------------------------------------------------------------------------
Pipeline == [pc : {"idle", "reading", "storing", "loading", "setting", "over"},
             seen : Seq(Nat),       \* the version read of each file so far
             chunks : Seq(Chunk),   \* all_chunks
             stored : Nat,          \* how many of them are in the collection
             personas : [NpcDocs -> Nat],
             alone : BOOLEAN]       \* history: no outdated pipeline ran beside it

NewPipeline(pc) ==
  [pc |-> pc, seen |-> <<>>, chunks |-> <<>>, stored |-> 0,
   personas |-> NoPersonas, alone |-> FALSE]

Idle == NewPipeline("idle")

TypeOK ==
  /\ disk \in [Docs -> Nat]
  /\ \A d \in Docs : disk[d] \in DOMAIN Versions[d]
  /\ Stored \subseteq Chunk
  /\ job \in [Pipelines -> Pipeline]
  /\ \A j \in Pipelines : job[j].stored <= Len(job[j].chunks)
  /\ server \in {"down", "starting", "up"}
  /\ registry \in [NpcDocs -> Nat]
  /\ synced \in BOOLEAN

Init ==
  /\ disk = [d \in Docs |-> 1]
  /\ collection = << >>
  /\ job = [j \in Pipelines |-> Idle]
  /\ server = "down"
  /\ registry = NoPersonas
  /\ synced = FALSE

Running(j) == job[j].pc \in {"reading", "storing", "loading", "setting"}

(* A running pipeline that has read what is no longer on disk.             *)
Outdated(j) ==
  Running(j) /\ \E n \in DOMAIN job[j].seen : job[j].seen[n] # disk[Files[n]]

-----------------------------------------------------------------------------
(* The environment. *)

(* An author saves the next version of a file.                             *)
Edit(d) ==
  /\ disk[d] < Len(Versions[d])
  /\ disk' = [disk EXCEPT ![d] = @ + 1]
  /\ job' = [j \in Pipelines |-> [job[j] EXCEPT !.alone = FALSE]]
  /\ synced' = FALSE
  /\ UNCHANGED <<collection, server, registry>>

(* The server stops: the collection is persistent, all else is lost. A     *)
(* reload that ran is not run again.                                       *)
Crash ==
  /\ server # "down"
  /\ server' = "down"
  /\ job' = [j \in Pipelines |->
               IF j = "startup" \/ job[j].pc = "idle" THEN Idle ELSE NewPipeline("over")]
  /\ registry' = NoPersonas
  /\ UNCHANGED <<disk, collection, synced>>

-----------------------------------------------------------------------------
(* Start-up and reloads. *)

(* lifespan: ingest if the collection is empty, else load the personas.    *)
Boot ==
  /\ server = "down"
  /\ server' = "starting"
  /\ job' = [job EXCEPT !["startup"] =
               NewPipeline(IF collection = << >> THEN "reading" ELSE "loading")]
  /\ UNCHANGED <<disk, collection, registry, synced>>

RequestReload(j) ==
  /\ server = "up"
  /\ j # "startup" /\ job[j].pc = "idle"
  /\ job' = [job EXCEPT ![j] = NewPipeline("reading")]
  /\ UNCHANGED <<disk, collection, server, registry, synced>>

(* What follows the ingestion: the personas are loaded.                    *)
AfterFile(p, alone) ==
  IF Len(p.seen) < Len(Files) THEN p
  ELSE IF p.chunks = <<>> THEN [p EXCEPT !.pc = "loading", !.alone = alone]
  ELSE [p EXCEPT !.pc = "storing", !.alone = alone]

(* process_file: read and chunk the next file; after the last one the      *)
(* chunks are embedded.                                                    *)
ReadFile(j) ==
  /\ job[j].pc = "reading"
  /\ Len(job[j].seen) < Len(Files)
  /\ LET d == Files[Len(job[j].seen) + 1]
         p == [job[j] EXCEPT !.seen = Append(@, disk[d]),
                             !.chunks = @ \o ChunksOf(d, disk[d])]
     IN job' = [job EXCEPT ![j] = AfterFile(p, \A k \in Pipelines : ~Outdated(k))]
  /\ UNCHANGED <<disk, collection, server, registry, synced>>

(* mutant: the last batch is counted as a full one.                        *)
StoreBatchUnclipped(j) ==
  /\ job[j].pc = "storing"
  /\ LET to == job[j].stored + BatchSize
         last == IF to < Len(job[j].chunks) THEN to ELSE Len(job[j].chunks)
     IN /\ collection' = Upsert(collection, job[j].chunks, job[j].stored + 1, last)
        /\ job' = [job EXCEPT ![j].stored = to,
                              ![j].pc = IF to < Len(job[j].chunks) THEN "storing" ELSE "loading"]
  /\ UNCHANGED <<disk, server, registry, synced>>

(* One batch of store_chunks.                                              *)
StoreBatch(j) ==
  /\ job[j].pc = "storing"
  /\ LET to == IF job[j].stored + BatchSize < Len(job[j].chunks)
               THEN job[j].stored + BatchSize ELSE Len(job[j].chunks)
     IN /\ collection' = Upsert(collection, job[j].chunks, job[j].stored + 1, to)
        /\ job' = [job EXCEPT ![j].stored = to,
                              ![j].pc = IF to < Len(job[j].chunks) THEN "storing" ELSE "loading"]
  /\ UNCHANGED <<disk, server, registry, synced>>

(* Reading, embedding or storing raises. A reload ends; start-up goes on   *)
(* without the documents.                                                  *)
IngestionFails(j) ==
  /\ job[j].pc \in {"reading", "storing"}
  /\ job' = [job EXCEPT ![j] = NewPipeline(IF j = "startup" THEN "loading" ELSE "over")]
  /\ UNCHANGED <<disk, collection, server, registry, synced>>

LoadPersonas(j) ==
  /\ job[j].pc = "loading"
  /\ job' = [job EXCEPT ![j].pc = "setting",
                        ![j].personas = [d \in NpcDocs |-> disk[d]]]
  /\ UNCHANGED <<disk, collection, server, registry, synced>>

(* set_persona_registry, the end of a reload and of start-up.              *)
SetRegistry(j) ==
  /\ job[j].pc = "setting"
  /\ registry' = job[j].personas
  /\ synced' = (synced \/ job[j].alone)
  /\ server' = "up"
  /\ job' = [job EXCEPT ![j] = NewPipeline("over")]
  /\ UNCHANGED <<disk, collection>>

Ingest(j) ==
  \/ ReadFile(j)
  \/ StoreBatch(j)
  \/ IngestionFails(j)
  \/ LoadPersonas(j)
  \/ SetRegistry(j)

Next ==
  \/ \E d \in Docs : Edit(d)
  \/ Crash
  \/ Boot
  \/ \E j \in Reloads : RequestReload(j)
  \/ \E j \in Pipelines : Ingest(j)

Spec == Init /\ [][Next]_knowledgeVars

-----------------------------------------------------------------------------
(* Once an ingestion has run to its end beside no pipeline that had read   *)
(* older versions, every section of every file is in the collection with   *)
(* its present text and stage, and every persona is read from the present  *)
(* file, until an author saves the next edit: whatever older chunks the    *)
(* upsert left, later reloads, failures and restarts.                      *)
ReloadTakesEffect ==
  synced =>
    /\ \A d \in Docs : \A i \in DOMAIN ChunksOf(d, disk[d]) :
         ChunksOf(d, disk[d])[i] \in Stored
    /\ server = "up" => registry = [d \in NpcDocs |-> disk[d]]
=============================================================================
