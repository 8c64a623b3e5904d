---------------------------- MODULE Hints_proofs ----------------------------
(***************************************************************************)
(* Proofs about Knowledge and Hints: types, where chunks come from, that a *)
(* reload takes effect whatever runs beside it, and that what a search     *)
(* returns is current and a hint is within reach, whatever is ingested,    *)
(* reported or lost meanwhile.                                             *)
(***************************************************************************)
EXTENDS Hints, FiniteSetTheorems, WellFoundedInduction, TLAPS

(***************************************************************************)
(* Knowledge                                                               *)
(***************************************************************************)

(* A chunk of a version of its file that is or was on disk.                *)
FromVersion(c) ==
  \E v \in 1 .. disk[c.doc] : \E i \in DOMAIN ChunksOf(c.doc, v) : ChunksOf(c.doc, v)[i] = c

(* Chunks come from versions, in the collection and in the pipelines.      *)
Provenance ==
  /\ \A c \in Stored : FromVersion(c)
  /\ \A j \in Pipelines : \A i \in DOMAIN job[j].chunks : FromVersion(job[j].chunks[i])

KInv == TypeOK /\ Provenance

-----------------------------------------------------------------------------
(* The chunks of a version are chunks of its file, one for each section.   *)
LEMMA ChunksOfVersion ==
  ASSUME NEW d \in Docs, NEW v \in DOMAIN Versions[d]
  PROVE  /\ ChunksOf(d, v) \in Seq(Chunk)
         /\ \A i \in DOMAIN ChunksOf(d, v) : ChunksOf(d, v)[i].doc = d
<1>1. Versions[d] \in Seq(Seq(Section))
  BY KnowledgeAssumption
<1>2. Versions[d][v] \in Seq(Section)
  BY <1>1
<1>3. \A i \in Nat : Stage(d, Versions[d][v], i) \in Nat
  <2> TAKE i \in Nat
  <2> DEFINE headed == {k \in 1 .. i : Versions[d][v][k].title # Untitled}
  <2>1. IsFiniteSet(1 .. i)
    BY FS_Interval
  <2>2. IsFiniteSet(headed)
    BY <2>1, FS_Subset
  <2>3. Cardinality(headed) \in Nat
    BY <2>2, FS_CardinalityType
  <2>4. Stage(d, Versions[d][v], i) = IF DocType[d] = "quest" THEN Cardinality(headed) ELSE 0
    BY DEF Stage
  <2> QED
    BY <2>3, <2>4
<1>4. \A i \in 1 .. Len(Versions[d][v]) :
        [doc |-> d, section |-> Versions[d][v][i].title,
         stage |-> Stage(d, Versions[d][v], i), text |-> Versions[d][v][i].text] \in Chunk
  <2> TAKE i \in 1 .. Len(Versions[d][v])
  <2>1. Versions[d][v][i] \in Section
    BY <1>2
  <2>2. Versions[d][v][i].title \in Titles /\ Versions[d][v][i].text \in Texts
    BY <2>1 DEF Section
  <2>3. Stage(d, Versions[d][v], i) \in Nat
    BY <1>2, <1>3
  <2> QED
    BY <2>2, <2>3 DEF Chunk
<1> QED
  BY <1>2, <1>4 DEF ChunksOf

(* A new version of a file takes nothing from where chunks come from.      *)
LEMMA EditKeepsVersions ==
  ASSUME TypeOK, NEW d \in Docs, Edit(d), NEW c \in Chunk, FromVersion(c)
  PROVE  FromVersion(c)'
<1>1. disk[c.doc] \in Nat /\ disk'[c.doc] \in Nat /\ disk[c.doc] <= disk'[c.doc]
  BY DEF TypeOK, Edit, Chunk
<1>2. 1 .. disk[c.doc] \subseteq 1 .. disk'[c.doc]
  BY <1>1
<1> QED
  BY <1>2 DEF FromVersion, ChunksOf, Stage

LEMMA VersionsKept ==
  ASSUME KInv, [Next]_knowledgeVars, NEW c \in Chunk, FromVersion(c)
  PROVE  FromVersion(c)'
<1>1. CASE \E d \in Docs : Edit(d)
  BY <1>1, EditKeepsVersions DEF KInv
<1>2. CASE disk' = disk
  BY <1>2 DEF FromVersion, ChunksOf, Stage
<1> QED
  BY <1>1, <1>2 DEF Next, knowledgeVars, Crash, Boot, RequestReload, Ingest, ReadFile,
       StoreBatch, IngestionFails, LoadPersonas, SetRegistry

-----------------------------------------------------------------------------
LEMMA NewPipelineType ==
  ASSUME NEW pc \in {"idle", "reading", "storing", "loading", "setting", "over"}
  PROVE  NewPipeline(pc) \in Pipeline /\ NewPipeline(pc).chunks = <<>>
                                      /\ NewPipeline(pc).stored = 0
BY DEF NewPipeline, Pipeline, NoPersonas

LEMMA InitKInv == Init => KInv
<1> SUFFICES ASSUME Init PROVE KInv
  OBVIOUS
<1> USE DEF Init
<1>1. /\ disk \in [Docs -> Nat]
      /\ \A d \in Docs : disk[d] \in DOMAIN Versions[d]
  <2>1. ASSUME NEW d \in Docs PROVE 1 \in DOMAIN Versions[d]
    <3>1. Versions[d] \in Seq(Seq(Section)) /\ Len(Versions[d]) > 0
      BY KnowledgeAssumption
    <3> QED
      BY <3>1
  <2> QED
    BY <2>1
<1>2. Stored = {}
  <2>1. DOMAIN collection = {}
    OBVIOUS
  <2> QED
    BY <2>1 DEF Stored
<1>3. job \in [Pipelines -> Pipeline] /\ \A j \in Pipelines : job[j].chunks = <<>> /\ job[j].stored = 0
  BY NewPipelineType DEF Idle
<1>4. registry \in [NpcDocs -> Nat]
  BY DEF NoPersonas
<1>5. TypeOK
  <2>1. \A j \in Pipelines : job[j].stored <= Len(job[j].chunks)
    BY <1>3
  <2>2. server \in {"down", "starting", "up"} /\ synced \in BOOLEAN
    OBVIOUS
  <2> QED
    BY <1>1, <1>2, <1>3, <1>4, <2>1, <2>2, Zenon DEF TypeOK
<1>6. Provenance
  BY <1>2, <1>3 DEF Provenance
<1> QED
  BY <1>5, <1>6 DEF KInv

(* Each step of a pipeline keeps the types; only the last two touch more   *)
(* than the pipeline's record and the collection.                          *)
LEMMA ReadFileType ==
  ASSUME KInv, NEW j \in Pipelines, ReadFile(j)
  PROVE  /\ job' \in [Pipelines -> Pipeline]
         /\ \A k \in Pipelines : job'[k].stored <= Len(job'[k].chunks)
         /\ \A k \in Pipelines : \A i \in DOMAIN job'[k].chunks :
               FromVersion(job'[k].chunks[i])
<1> DEFINE n == Len(job[j].seen) + 1
           d == Files[n]
           new == ChunksOf(d, disk[d])
           p == [job[j] EXCEPT !.seen = Append(@, disk[d]), !.chunks = @ \o new]
           alone == \A k \in Pipelines : ~Outdated(k)
<1>1. job[j] \in Pipeline /\ job[j].stored <= Len(job[j].chunks)
  BY DEF KInv, TypeOK
<1>2. n \in DOMAIN Files /\ d \in Docs
  BY <1>1, KnowledgeAssumption DEF ReadFile, Pipeline
<1>3. disk[d] \in Nat /\ disk[d] \in DOMAIN Versions[d]
  BY <1>2 DEF KInv, TypeOK
<1>4. new \in Seq(Chunk) /\ \A i \in DOMAIN new : new[i].doc = d
  BY <1>2, <1>3, ChunksOfVersion
<1>5. disk[d] \in 1 .. disk[d]
  <2>1. Versions[d] \in Seq(Seq(Section))
    BY <1>2, KnowledgeAssumption
  <2> QED
    BY <1>3, <2>1
<1>6. \A i \in DOMAIN new : FromVersion(new[i])
  BY <1>4, <1>5 DEF FromVersion
<1> HIDE DEF new, d
<1>7. job[j].chunks \in Seq(Chunk) /\ job[j].seen \in Seq(Nat)
  BY <1>1 DEF Pipeline
<1>8. job[j].chunks \o new \in Seq(Chunk) /\ Append(job[j].seen, disk[d]) \in Seq(Nat)
  BY <1>3, <1>4, <1>7
<1>9. p \in Pipeline /\ p.stored <= Len(p.chunks) /\ p.chunks = job[j].chunks \o new
  <2>1. p \in Pipeline /\ p.chunks = job[j].chunks \o new /\ p.stored = job[j].stored
    BY <1>1, <1>8 DEF Pipeline
  <2>2. Len(p.chunks) = Len(job[j].chunks) + Len(new)
    BY <2>1, <1>4, <1>7
  <2>3. job[j].stored \in Nat /\ Len(job[j].chunks) \in Nat /\ Len(new) \in Nat
    BY <1>1, <1>4, <1>7 DEF Pipeline
  <2> QED
    BY <1>1, <2>1, <2>2, <2>3
<1>10. \A i \in DOMAIN p.chunks : FromVersion(p.chunks[i])
  <2>1. \A i \in DOMAIN job[j].chunks : FromVersion(job[j].chunks[i])
    BY DEF KInv, Provenance
  <2> SUFFICES ASSUME NEW i \in DOMAIN (job[j].chunks \o new)
               PROVE  FromVersion((job[j].chunks \o new)[i])
    BY <1>9
  <2>2. CASE i \in DOMAIN job[j].chunks
    <3>1. (job[j].chunks \o new)[i] = job[j].chunks[i]
      BY <2>2, <1>4, <1>7
    <3> QED
      BY <2>1, <2>2, <3>1
  <2>3. CASE i \notin DOMAIN job[j].chunks
    <3>1. /\ i - Len(job[j].chunks) \in DOMAIN new
          /\ (job[j].chunks \o new)[i] = new[i - Len(job[j].chunks)]
      BY <2>3, <1>4, <1>7
    <3> QED
      BY <1>6, <3>1
  <2> QED
    BY <2>2, <2>3
<1> HIDE DEF p, alone
<1>11. /\ AfterFile(p, alone) \in Pipeline
       /\ AfterFile(p, alone).stored = p.stored
       /\ AfterFile(p, alone).chunks = p.chunks
  <2>1. alone \in BOOLEAN
    BY DEF alone
  <2> QED
    BY <2>1, <1>9 DEF AfterFile, Pipeline
<1>12. job' = [job EXCEPT ![j] = AfterFile(p, alone)]
  BY DEF ReadFile, n, d, new, p, alone
<1>13. job \in [Pipelines -> Pipeline]
  BY DEF KInv, TypeOK
<1>14. job' \in [Pipelines -> Pipeline]
  BY <1>11, <1>12, <1>13
<1>15. \A k \in Pipelines : job'[k].stored <= Len(job'[k].chunks)
  BY <1>9, <1>11, <1>12, <1>13 DEF KInv, TypeOK
<1>16. \A k \in Pipelines : \A i \in DOMAIN job'[k].chunks : FromVersion(job'[k].chunks[i])
  BY <1>10, <1>11, <1>12, <1>13 DEF KInv, Provenance
<1> QED
  BY <1>14, <1>15, <1>16

(* What the collection holds after a batch it held before or was given.    *)
LEMMA StoreBatchType ==
  ASSUME KInv, NEW j \in Pipelines, StoreBatch(j)
  PROVE  /\ job' \in [Pipelines -> Pipeline]
         /\ \A k \in Pipelines : job'[k].stored <= Len(job'[k].chunks)
         /\ \A k \in Pipelines : job'[k].chunks = job[k].chunks
         /\ \A c \in Stored' : c \in Stored \/ \E i \in DOMAIN job[j].chunks : job[j].chunks[i] = c
<1> DEFINE chunks == job[j].chunks
           to == IF job[j].stored + BatchSize < Len(chunks)
                 THEN job[j].stored + BatchSize ELSE Len(chunks)
<1>1. job[j] \in Pipeline /\ job \in [Pipelines -> Pipeline] /\ job[j].stored <= Len(chunks)
  BY DEF KInv, TypeOK
<1>2. chunks \in Seq(Chunk) /\ job[j].stored \in Nat /\ Len(chunks) \in Nat
  BY <1>1 DEF Pipeline
<1>3. to \in Nat /\ to <= Len(chunks) /\ job[j].stored <= to
  BY <1>1, <1>2, KnowledgeAssumption
<1>4. /\ collection' = Upsert(collection, chunks, job[j].stored + 1, to)
      /\ job' = [job EXCEPT ![j].stored = to,
                            ![j].pc = IF to < Len(chunks) THEN "storing" ELSE "loading"]
  BY DEF StoreBatch
<1> HIDE DEF to
<1>5. /\ job'[j] \in Pipeline /\ job'[j].stored = to /\ job'[j].chunks = chunks
      /\ \A k \in Pipelines : k # j => job'[k] = job[k]
      /\ job' \in [Pipelines -> Pipeline]
  BY <1>1, <1>3, <1>4 DEF Pipeline
<1>6. \A k \in Pipelines : job'[k].stored <= Len(job'[k].chunks)
  BY <1>3, <1>5 DEF KInv, TypeOK
<1>7. ASSUME NEW c \in Stored'
      PROVE  c \in Stored \/ \E i \in DOMAIN chunks : chunks[i] = c
  <2>1. PICK id \in DOMAIN collection' : collection'[id] = c
    BY <1>7 DEF Stored
  <2>2. \/ id \in DOMAIN collection /\ c = collection[id]
        \/ \E i \in job[j].stored + 1 .. to : c = chunks[i]
    <3> DEFINE range == job[j].stored + 1 .. to
               ids == {ChunkId(chunks[i], i) : i \in range}
    <3>1. CASE id \in ids
      <4> DEFINE n == CHOOSE i \in range : ChunkId(chunks[i], i) = id
      <4>1. n \in range
        BY <3>1
      <4>2. c = chunks[n]
        BY <1>4, <2>1, <3>1 DEF Upsert
      <4> QED
        BY <4>1, <4>2
    <3>2. CASE id \notin ids
      BY <1>4, <2>1, <3>2 DEF Upsert
    <3> QED
      BY <3>1, <3>2
  <2>3. job[j].stored + 1 .. to \subseteq DOMAIN chunks
    BY <1>2, <1>3
  <2> QED
    BY <2>2, <2>3 DEF Stored
<1> QED
  BY <1>5, <1>6, <1>7

(* What the other steps do to the pipelines: their chunks stay or go.      *)
JobsKept ==
  /\ job' \in [Pipelines -> Pipeline]
  /\ \A k \in Pipelines : /\ job'[k].stored <= Len(job'[k].chunks)
                         /\ job'[k].chunks \in {job[k].chunks, <<>>}

LEMMA OneRenewed ==
  ASSUME KInv, NEW j \in Pipelines,
         NEW pc \in {"idle", "reading", "storing", "loading", "setting", "over"},
         job' = [job EXCEPT ![j] = NewPipeline(pc)]
  PROVE  JobsKept
BY NewPipelineType DEF JobsKept, KInv, TypeOK

OtherStep ==
  \/ UNCHANGED knowledgeVars
  \/ \E d \in Docs : Edit(d)
  \/ Crash
  \/ Boot
  \/ \E j \in Reloads : RequestReload(j)
  \/ \E j \in Pipelines : IngestionFails(j) \/ LoadPersonas(j) \/ SetRegistry(j)

LEMMA OtherStepsKeep ==
  ASSUME KInv, OtherStep
  PROVE  JobsKept /\ collection' = collection
<1>1. /\ job \in [Pipelines -> Pipeline]
      /\ \A k \in Pipelines : job[k].stored <= Len(job[k].chunks)
      /\ disk \in [Docs -> Nat]
  BY DEF KInv, TypeOK
<1>2. CASE UNCHANGED knowledgeVars
  BY <1>1, <1>2 DEF knowledgeVars, JobsKept
<1>3. ASSUME NEW d \in Docs, Edit(d) PROVE JobsKept /\ collection' = collection
  BY <1>1, <1>3 DEF Edit, Pipeline, JobsKept
<1>4. CASE Crash
  <2>1. \A k \in Pipelines : job'[k] \in {NewPipeline("idle"), NewPipeline("over")}
    BY <1>4 DEF Crash, Idle
  <2>2. job' \in [Pipelines -> Pipeline]
    BY <1>4, NewPipelineType DEF Crash, Idle
  <2>3. \A k \in Pipelines : job'[k].chunks = <<>> /\ job'[k].stored = 0
    BY <2>1, NewPipelineType
  <2> QED
    BY <1>4, <2>2, <2>3 DEF Crash, JobsKept
<1>5. CASE Boot
  BY <1>5, OneRenewed DEF Boot, Pipelines
<1>6. ASSUME NEW j \in Reloads, RequestReload(j) PROVE JobsKept /\ collection' = collection
  BY <1>6, OneRenewed DEF RequestReload, Pipelines
<1>7. ASSUME NEW j \in Pipelines, IngestionFails(j) PROVE JobsKept /\ collection' = collection
  BY <1>7, OneRenewed DEF IngestionFails
<1>8. ASSUME NEW j \in Pipelines, LoadPersonas(j) PROVE JobsKept /\ collection' = collection
  <2>1. [d \in NpcDocs |-> disk[d]] \in [NpcDocs -> Nat]
    BY <1>1 DEF NpcDocs
  <2> QED
    BY <1>1, <1>8, <2>1 DEF LoadPersonas, Pipeline, JobsKept
<1>9. ASSUME NEW j \in Pipelines, SetRegistry(j) PROVE JobsKept /\ collection' = collection
  BY <1>9, OneRenewed DEF SetRegistry
<1> QED
  BY <1>2, <1>3, <1>4, <1>5, <1>6, <1>7, <1>8, <1>9 DEF OtherStep

(* The variables beside jobs and collection.                               *)
LEMMA OtherVariablesType ==
  ASSUME KInv, [Next]_knowledgeVars
  PROVE  /\ disk' \in [Docs -> Nat]
         /\ \A d \in Docs : disk'[d] \in DOMAIN Versions[d]
         /\ server' \in {"down", "starting", "up"}
         /\ registry' \in [NpcDocs -> Nat]
         /\ synced' \in BOOLEAN
<1>1. /\ disk \in [Docs -> Nat] /\ job \in [Pipelines -> Pipeline]
      /\ \A d \in Docs : disk[d] \in DOMAIN Versions[d]
      /\ server \in {"down", "starting", "up"}
      /\ registry \in [NpcDocs -> Nat]
      /\ synced \in BOOLEAN
  BY DEF KInv, TypeOK
<1>2. \/ disk' = disk
      \/ \E d \in Docs : disk[d] < Len(Versions[d]) /\ disk' = [disk EXCEPT ![d] = @ + 1]
  BY DEF Next, knowledgeVars, Edit, Crash, Boot, RequestReload, Ingest, ReadFile,
         StoreBatch, IngestionFails, LoadPersonas, SetRegistry
<1>3. \A d \in Docs : Versions[d] \in Seq(Seq(Section))
  BY KnowledgeAssumption
<1>4. disk' \in [Docs -> Nat] /\ \A d \in Docs : disk'[d] \in DOMAIN Versions[d]
  BY <1>1, <1>2, <1>3
<1>5. server' \in {server, "down", "starting", "up"}
  BY DEF Next, knowledgeVars, Edit, Crash, Boot, RequestReload, Ingest, ReadFile,
         StoreBatch, IngestionFails, LoadPersonas, SetRegistry
<1>6. \/ registry' \in {registry, NoPersonas}
      \/ \E j \in Pipelines : registry' = job[j].personas
  BY DEF Next, knowledgeVars, Edit, Crash, Boot, RequestReload, Ingest, ReadFile,
         StoreBatch, IngestionFails, LoadPersonas, SetRegistry
<1>7. registry' \in [NpcDocs -> Nat]
  BY <1>1, <1>6 DEF Pipeline, NoPersonas
<1>8. \/ synced' \in {synced, FALSE}
      \/ \E j \in Pipelines : synced' = (synced \/ job[j].alone)
  BY DEF Next, knowledgeVars, Edit, Crash, Boot, RequestReload, Ingest, ReadFile,
         StoreBatch, IngestionFails, LoadPersonas, SetRegistry
<1>9. synced' \in BOOLEAN
  <2>1. \A j \in Pipelines : job[j].alone \in BOOLEAN
    BY <1>1 DEF Pipeline
  <2> QED
    BY <1>1, <1>8, <2>1, Zenon
<1> QED
  BY <1>1, <1>4, <1>5, <1>7, <1>9

(* What is left to show of a step.                                         *)
StepTyped ==
  /\ job' \in [Pipelines -> Pipeline] /\ Stored' \subseteq Chunk /\ Provenance'
  /\ \A k \in Pipelines : job'[k].stored <= Len(job'[k].chunks)

LEMMA NextKInv == KInv /\ [Next]_knowledgeVars => KInv'
<1> SUFFICES ASSUME KInv, [Next]_knowledgeVars PROVE KInv'
  OBVIOUS
<1>1. \/ \E j \in Pipelines : ReadFile(j)
      \/ \E j \in Pipelines : StoreBatch(j)
      \/ OtherStep
  BY DEF Next, Ingest, OtherStep
<1>2. Stored \subseteq Chunk /\ \A j \in Pipelines : job[j].chunks \in Seq(Chunk)
  BY DEF KInv, TypeOK, Pipeline
<1>3. \A j \in Pipelines : \A i \in DOMAIN job[j].chunks : job[j].chunks[i] \in Chunk
  BY <1>2
<1>4. ASSUME NEW c \in Chunk, FromVersion(c) PROVE FromVersion(c)'
  BY <1>4, VersionsKept
<1>5. ASSUME NEW j \in Pipelines, ReadFile(j)
      PROVE  StepTyped
  <2>1. disk' = disk /\ Stored' = Stored
    BY <1>5 DEF ReadFile, Stored
  <2>2. /\ job' \in [Pipelines -> Pipeline]
        /\ \A k \in Pipelines : job'[k].stored <= Len(job'[k].chunks)
        /\ \A k \in Pipelines : \A i \in DOMAIN job'[k].chunks : FromVersion(job'[k].chunks[i])
    BY <1>5, ReadFileType
  <2>3. \A k \in Pipelines : \A i \in DOMAIN job'[k].chunks : job'[k].chunks[i] \in Chunk
    BY <2>2 DEF Pipeline
  <2>4. Provenance'
    BY <1>2, <1>4, <2>1, <2>2, <2>3 DEF KInv, Provenance
  <2> QED
    BY <1>2, <2>1, <2>2, <2>4 DEF StepTyped
<1>6. ASSUME NEW j \in Pipelines, StoreBatch(j)
      PROVE  StepTyped
  <2>1. /\ job' \in [Pipelines -> Pipeline]
        /\ \A k \in Pipelines : job'[k].stored <= Len(job'[k].chunks)
        /\ \A k \in Pipelines : job'[k].chunks = job[k].chunks
        /\ \A c \in Stored' : c \in Stored \/ \E i \in DOMAIN job[j].chunks : job[j].chunks[i] = c
    BY <1>6, StoreBatchType
  <2>2. Stored' \subseteq Chunk
    BY <1>2, <1>3, <2>1
  <2>3. \A c \in Stored' : FromVersion(c)
    BY <2>1 DEF KInv, Provenance
  <2>4. Provenance'
    BY <1>3, <1>4, <2>1, <2>2, <2>3 DEF KInv, Provenance
  <2> QED
    BY <2>1, <2>2, <2>4 DEF StepTyped
<1>7. ASSUME OtherStep
      PROVE  StepTyped
  <2>1. JobsKept /\ collection' = collection
    BY <1>7, OtherStepsKeep
  <2>2. Stored' = Stored
    BY <2>1 DEF Stored
  <2>3. \A k \in Pipelines : \A i \in DOMAIN job'[k].chunks :
          i \in DOMAIN job[k].chunks /\ job'[k].chunks[i] = job[k].chunks[i]
    BY <2>1 DEF JobsKept
  <2>4. Provenance'
    BY <1>2, <1>3, <1>4, <2>2, <2>3 DEF KInv, Provenance
  <2>5. job' \in [Pipelines -> Pipeline] /\ \A k \in Pipelines : job'[k].stored <= Len(job'[k].chunks)
    BY <2>1, Zenon DEF JobsKept
  <2>6. Stored' \subseteq Chunk
    BY <1>2, <2>2
  <2> QED
    BY <2>4, <2>5, <2>6, Zenon DEF StepTyped
<1>8. StepTyped
  BY <1>1, <1>5, <1>6, <1>7, Zenon
<1>9. TypeOK'
  BY <1>8, OtherVariablesType, Zenon DEF TypeOK, StepTyped
<1> QED
  BY <1>8, <1>9 DEF KInv, StepTyped

-----------------------------------------------------------------------------
THEOREM KnowledgeInvariant == Spec => []KInv
<1>1. Init => KInv
  BY InitKInv
<1>2. KInv /\ [Next]_knowledgeVars => KInv'
  BY NextKInv
<1> QED
  BY <1>1, <1>2, PTL DEF Spec

(* Every reachable state of files, pipelines, collection and registry is   *)
(* well typed: no pipeline stores more than it read.                       *)
THEOREM TypeCorrect == Spec => []TypeOK
<1>1. KInv => TypeOK
  BY DEF KInv
<1> QED
  BY <1>1, KnowledgeInvariant, PTL

-----------------------------------------------------------------------------
(* What an undisturbed ingestion stores                                    *)
(* s holds the parts one after the other, the m-th up to off[m].           *)
Joined(s, parts, off) ==
  /\ off \in [0 .. Len(parts) -> Nat]
  /\ off[0] = 0 /\ off[Len(parts)] = Len(s)
  /\ \A m \in 1 .. Len(parts) :
       /\ off[m] = off[m - 1] + Len(parts[m]) /\ off[m] <= Len(s)
       /\ \A i \in 1 .. Len(parts[m]) : s[off[m - 1] + i] = parts[m][i]
  /\ \A i \in 1 .. Len(s) : \E m \in 1 .. Len(parts) : off[m - 1] < i /\ i <= off[m]

LEMMA Least ==
  ASSUME NEW S \in SUBSET Nat, S # {}
  PROVE  \E m \in S : \A n \in S : m <= n
<1> DEFINE R == {ss \in Nat \X Nat : ss[1] < ss[2]}
<1>1. R = OpToRel(<, Nat)
  BY Zenon DEF OpToRel
<1>2. IsWellFoundedOn(R, Nat)
  BY <1>1, NatLessThanWellFounded, Zenon
<1>3. \A x, y \in Nat : y < x => <<y, x>> \in R
  OBVIOUS
<1>4. \E x \in S : \A y \in S : ~ (<<y, x>> \in R)
  BY <1>2, WFMin
<1> HIDE DEF R
<1>5. PICK x \in S : \A y \in S : ~ (y < x)
  BY <1>3, <1>4
<1> QED
  BY <1>5

(* Only one offset of each part is possible: a least part they differ at   *)
(* would follow one they agree at.                                         *)
LEMMA SameOffsets ==
  ASSUME NEW S, NEW parts \in Seq(Seq(S)), NEW s \in Seq(S), NEW t \in Seq(S),
         NEW off, NEW pos, Joined(s, parts, off), Joined(t, parts, pos)
  PROVE  \A m \in 0 .. Len(parts) : off[m] = pos[m]
<1> DEFINE D == {m \in 0 .. Len(parts) : off[m] # pos[m]}
<1> SUFFICES ASSUME D # {} PROVE FALSE
  OBVIOUS
<1>1. D \in SUBSET Nat
  OBVIOUS
<1>2. PICK m \in D : \A n \in D : m <= n
  BY <1>1, Least
<1>3. m # 0
  BY DEF Joined
<1>4. m \in 1 .. Len(parts) /\ m - 1 \in 0 .. Len(parts)
  BY <1>3
<1>5. off[m - 1] = pos[m - 1]
  BY <1>2, <1>4
<1>6. off[m] = off[m - 1] + Len(parts[m]) /\ pos[m] = pos[m - 1] + Len(parts[m])
  BY <1>4, Zenon DEF Joined
<1> QED
  BY <1>2, <1>5, <1>6

LEMMA JoinedOnce ==
  ASSUME NEW S, NEW parts \in Seq(Seq(S)), NEW s \in Seq(S), NEW t \in Seq(S),
         NEW off, NEW pos, Joined(s, parts, off), Joined(t, parts, pos)
  PROVE  s = t
<1>1. \A m \in 0 .. Len(parts) : off[m] = pos[m]
  BY SameOffsets
<1>2. Len(s) = Len(t)
  <2>1. Len(parts) \in 0 .. Len(parts)
    OBVIOUS
  <2> QED
    BY <1>1, <2>1 DEF Joined
<1>3. ASSUME NEW i \in 1 .. Len(s) PROVE s[i] = t[i]
  <2>1. PICK m \in 1 .. Len(parts) : off[m - 1] < i /\ i <= off[m]
    BY Zenon DEF Joined
  <2>2. m \in 0 .. Len(parts) /\ m - 1 \in 0 .. Len(parts) /\ parts[m] \in Seq(S)
    OBVIOUS
  <2>3. off[m] = off[m - 1] + Len(parts[m]) /\ off[m - 1] \in Nat
    <3>1. off \in [0 .. Len(parts) -> Nat]
      BY DEF Joined
    <3>2. off[m] = off[m - 1] + Len(parts[m])
      BY Zenon DEF Joined
    <3> QED
      BY <2>2, <3>1, <3>2
  <2> DEFINE k == i - off[m - 1]
  <2>4. k \in 1 .. Len(parts[m]) /\ off[m - 1] + k = i
    BY <2>1, <2>2, <2>3
  <2> HIDE DEF k
  <2>5. s[off[m - 1] + k] = parts[m][k]
    BY <2>4, Zenon DEF Joined
  <2>6. t[pos[m - 1] + k] = parts[m][k]
    BY <2>4, Zenon DEF Joined
  <2> QED
    BY <1>1, <2>2, <2>4, <2>5, <2>6
<1> QED
  BY <1>2, <1>3

LEMMA NothingJoined == \E off : Joined(<<>>, <<>>, off)
<1> DEFINE off == [m \in 0 .. Len(<<>>) |-> 0]
<1>1. Joined(<<>>, <<>>, off)
  BY DEF Joined
<1> QED
  BY <1>1

(* A part more makes s longer at its end. *)
LEMMA JoinedGrows ==
  ASSUME NEW S, NEW parts \in Seq(Seq(S)), NEW s \in Seq(S), NEW off,
         Joined(s, parts, off), NEW new \in Seq(S)
  PROVE  \E pos : Joined(s \o new, Append(parts, new), pos)
<1> DEFINE L == Len(parts)
           t == s \o new
           more == Append(parts, new)
           pos == [m \in 0 .. L + 1 |-> IF m = L + 1 THEN Len(s) + Len(new) ELSE off[m]]
<1>1. L \in Nat /\ Len(s) \in Nat /\ Len(new) \in Nat /\ Len(t) = Len(s) + Len(new)
  OBVIOUS
<1>2. Len(more) = L + 1 /\ more[L + 1] = new /\ \A m \in 1 .. L : more[m] = parts[m]
  OBVIOUS
<1>3. off \in [0 .. L -> Nat] /\ off[0] = 0 /\ off[L] = Len(s)
  BY DEF Joined
<1>4. /\ \A i \in 1 .. Len(s) : t[i] = s[i]
      /\ \A i \in 1 .. Len(new) : t[Len(s) + i] = new[i]
  OBVIOUS
<1> HIDE DEF t, more, L
<1>5. /\ pos \in [0 .. L + 1 -> Nat]
      /\ pos[L + 1] = Len(t)
      /\ \A m \in 0 .. L : pos[m] = off[m]
  BY <1>1, <1>3
<1> HIDE DEF pos
<1>6. ASSUME NEW m \in 1 .. L + 1
      PROVE  /\ pos[m] = pos[m - 1] + Len(more[m])
             /\ pos[m] <= Len(t)
             /\ \A i \in 1 .. Len(more[m]) : t[pos[m - 1] + i] = more[m][i]
  <2>1. CASE m = L + 1
    <3>1. pos[m - 1] = Len(s)
      BY <1>1, <1>3, <1>5, <2>1
    <3> QED
      BY <1>1, <1>2, <1>4, <1>5, <2>1, <3>1
  <2>2. CASE m # L + 1
    <3>1. m \in 1 .. L /\ m \in 0 .. L /\ m - 1 \in 0 .. L
      BY <1>1, <2>2
    <3>2. /\ off[m] = off[m - 1] + Len(parts[m]) /\ off[m] <= Len(s)
          /\ \A i \in 1 .. Len(parts[m]) : s[off[m - 1] + i] = parts[m][i]
      BY <3>1, Zenon DEF Joined, L
    <3>3. more[m] = parts[m] /\ pos[m] = off[m] /\ pos[m - 1] = off[m - 1]
      BY <1>2, <1>5, <3>1
    <3>4. off[m - 1] \in Nat /\ Len(parts[m]) \in Nat
      <4>1. off[m - 1] \in Nat
        BY <1>3, <3>1
      <4>2. parts[m] \in Seq(S)
        BY <3>1 DEF L
      <4> QED
        BY <4>1, <4>2
    <3>5. \A i \in 1 .. Len(parts[m]) : off[m - 1] + i \in 1 .. Len(s)
      BY <3>2, <3>4, <1>1
    <3>6. pos[m] <= Len(t)
      BY <1>1, <1>3, <3>1, <3>2, <3>3
    <3> QED
      BY <1>4, <3>2, <3>3, <3>5, <3>6
  <2> QED
    BY <2>1, <2>2
<1>7. ASSUME NEW i \in 1 .. Len(t)
      PROVE  \E m \in 1 .. L + 1 : pos[m - 1] < i /\ i <= pos[m]
  <2>1. CASE i \in 1 .. Len(s)
    <3>1. PICK m \in 1 .. L : off[m - 1] < i /\ i <= off[m]
      BY <2>1, Zenon DEF Joined, L
    <3>2. m \in 1 .. L + 1 /\ m \in 0 .. L /\ m - 1 \in 0 .. L
      BY <1>1
    <3>3. pos[m] = off[m] /\ pos[m - 1] = off[m - 1]
      BY <1>5, <3>2
    <3> QED
      BY <3>1, <3>2, <3>3
  <2>2. CASE i \notin 1 .. Len(s)
    <3>1. pos[(L + 1) - 1] = Len(s) /\ L + 1 \in 1 .. L + 1
      BY <1>1, <1>3, <1>5
    <3>2. Len(s) < i /\ i <= pos[L + 1]
      BY <1>1, <1>5, <2>2
    <3> QED
      BY <3>1, <3>2
  <2> QED
    BY <2>1, <2>2
<1>8. pos[0] = 0
  BY <1>1, <1>3, <1>5
<1>9. Joined(t, more, pos)
  BY <1>2, <1>5, <1>6, <1>7, <1>8 DEF Joined
<1> QED
  BY <1>9 DEF t, more

-----------------------------------------------------------------------------
(* The chunks of each file a pipeline has read. *)
Parts(seen) == [m \in 1 .. Len(seen) |-> ChunksOf(Files[m], seen[m])]

(* A pipeline holds the chunks of what it read, one file after the other,  *)
(* and what it read is no newer than the files. A pipeline that stores has *)
(* read all of them; one that loads personas has stored them too, unless   *)
(* it is a start-up that did not ingest; personas are read last.           *)
InOrder(j, p, files) ==
  /\ \E off : Joined(p.chunks, Parts(p.seen), off)
  /\ Len(p.seen) <= Len(Files)
  /\ \A n \in 1 .. Len(p.seen) :
       /\ 0 < p.seen[n] /\ p.seen[n] <= files[Files[n]]
       /\ p.pc = "setting" /\ Files[n] \in NpcDocs =>
            p.seen[n] <= p.personas[Files[n]] /\ p.personas[Files[n]] <= files[Files[n]]
  /\ p.pc = "reading" => ~p.alone /\ p.stored = 0
  /\ p.pc = "storing" => Len(p.seen) = Len(Files)
  /\ p.pc \in {"loading", "setting"} =>
       \/ Len(p.seen) = Len(Files) /\ p.stored = Len(p.chunks)
       \/ j = "startup" /\ p.seen = <<>> /\ ~p.alone
  /\ p.pc \in {"idle", "over"} => ~p.alone

AllInOrder == \A j \in Pipelines : InOrder(j, job[j], disk)

(* The versions on disk, and the chunks an ingestion of them stores.       *)
Current == [n \in 1 .. Len(Files) |-> disk[Files[n]]]

IngestsCurrent(all) ==
  all \in Seq(Chunk) /\ \E off : Joined(all, Parts(Current), off)

(* A chunk stands under its id. *)
Placed(c, i) == ChunkId(c, i) \in DOMAIN collection /\ collection[ChunkId(c, i)] = c

(* While the collection is in step with the files, or a pipeline is on the *)
(* way to it, none runs that would store older chunks.                     *)
Undisturbed ==
  synced \/ (\E j \in Pipelines : job[j].alone) => \A k \in Pipelines : ~Outdated(k)

StoredSoFar ==
  \A j \in Pipelines : job[j].alone =>
    \A i \in 1 .. job[j].stored : Placed(job[j].chunks[i], i)

AllStored ==
  synced => \E all : IngestsCurrent(all) /\ \A i \in 1 .. Len(all) : Placed(all[i], i)

PersonasCurrent ==
  synced =>
    /\ server = "up" => registry = [d \in NpcDocs |-> disk[d]]
    /\ \A j \in Pipelines : job[j].pc = "setting" /\ job[j].seen = <<>> =>
         job[j].personas = [d \in NpcDocs |-> disk[d]]

(* No reload runs until the start-up is over. *)
StartupFirst ==
  \A j \in Pipelines : Running(j) => server = IF j = "startup" THEN "starting" ELSE "up"

SyncInv ==
  /\ KInv
  /\ AllInOrder
  /\ StartupFirst
  /\ Undisturbed
  /\ StoredSoFar
  /\ AllStored
  /\ PersonasCurrent

-----------------------------------------------------------------------------
LEMMA PartsType ==
  ASSUME TypeOK, NEW seen \in Seq(Nat), Len(seen) <= Len(Files),
         \A n \in 1 .. Len(seen) : 0 < seen[n] /\ seen[n] <= disk[Files[n]]
  PROVE  /\ Parts(seen) \in Seq(Seq(Chunk))
         /\ \A n \in 1 .. Len(seen) : ChunksOf(Files[n], seen[n]) \in Seq(Chunk)
<1>1. ASSUME NEW n \in 1 .. Len(seen)
      PROVE  ChunksOf(Files[n], seen[n]) \in Seq(Chunk)
  <2>1. Files \in Seq(Docs) /\ n \in 1 .. Len(Files)
    BY KnowledgeAssumption
  <2>2. Files[n] \in Docs
    BY <2>1
  <2>3. Versions[Files[n]] \in Seq(Seq(Section)) /\ disk[Files[n]] \in DOMAIN Versions[Files[n]]
    BY <2>2, KnowledgeAssumption DEF TypeOK
  <2>4. seen[n] \in Nat /\ 0 < seen[n] /\ seen[n] <= disk[Files[n]] /\ disk[Files[n]] \in Nat
    BY <2>2 DEF TypeOK
  <2>5. seen[n] \in DOMAIN Versions[Files[n]]
    BY <2>3, <2>4
  <2> QED
    BY <2>2, <2>5, ChunksOfVersion
<1>2. Len(seen) \in Nat
  OBVIOUS
<1> QED
  BY <1>1, <1>2 DEF Parts

LEMMA PartsGrow ==
  ASSUME NEW seen \in Seq(Nat), NEW v \in Nat
  PROVE  Parts(Append(seen, v)) = Append(Parts(seen), ChunksOf(Files[Len(seen) + 1], v))
<1> DEFINE n == Len(seen) + 1
           more == Append(seen, v)
<1>1. Len(more) = n /\ n \in Nat /\ Len(seen) \in Nat
      /\ more[n] = v /\ \A m \in 1 .. Len(seen) : more[m] = seen[m]
  OBVIOUS
<1>2. Len(Parts(seen)) = Len(seen) /\ DOMAIN Parts(seen) = 1 .. Len(seen)
  BY <1>1 DEF Parts
<1> HIDE DEF more
<1>3. Parts(more) = [m \in 1 .. n |-> ChunksOf(Files[m], more[m])]
  BY <1>1 DEF Parts
<1>4. Append(Parts(seen), ChunksOf(Files[n], v)) =
        [m \in 1 .. n |-> IF m <= Len(seen) THEN Parts(seen)[m] ELSE ChunksOf(Files[n], v)]
  BY <1>2
<1>5. \A m \in 1 .. n : ChunksOf(Files[m], more[m]) =
        IF m <= Len(seen) THEN Parts(seen)[m] ELSE ChunksOf(Files[n], v)
  <2> TAKE m \in 1 .. n
  <2>1. CASE m <= Len(seen)
    <3>1. m \in 1 .. Len(seen)
      BY <2>1
    <3> QED
      BY <1>1, <2>1, <3>1 DEF Parts
  <2>2. CASE ~(m <= Len(seen))
    <3>1. m = n
      BY <1>1, <2>2
    <3> QED
      BY <1>1, <2>2, <3>1
  <2> QED
    BY <2>1, <2>2
<1> QED
  BY <1>3, <1>4, <1>5 DEF more

(* Two ingestions of the files on disk store the same chunks.              *)
LEMMA CurrentOnce ==
  ASSUME TypeOK, NEW all, NEW more, IngestsCurrent(all), IngestsCurrent(more)
  PROVE  all = more
<1>1. Files \in Seq(Docs) /\ disk \in [Docs -> Nat] /\ \A d \in Docs : disk[d] \in DOMAIN Versions[d]
  BY KnowledgeAssumption DEF TypeOK
<1>2. Current \in Seq(Nat) /\ Len(Current) = Len(Files)
      /\ \A n \in 1 .. Len(Files) : Current[n] = disk[Files[n]]
  BY <1>1 DEF Current
<1>3. \A n \in 1 .. Len(Current) : 0 < Current[n] /\ Current[n] <= disk[Files[n]]
  <2> TAKE n \in 1 .. Len(Current)
  <2>1. Files[n] \in Docs /\ Versions[Files[n]] \in Seq(Seq(Section))
    BY <1>1, <1>2, KnowledgeAssumption
  <2>2. disk[Files[n]] \in Nat /\ 0 < disk[Files[n]]
    BY <1>1, <2>1
  <2> QED
    BY <1>2, <2>2
<1>4. Parts(Current) \in Seq(Seq(Chunk))
  <2>1. Len(Current) <= Len(Files)
    BY <1>1, <1>2
  <2> QED
    BY <1>2, <1>3, <2>1, PartsType
<1> QED
  BY <1>4, JoinedOnce DEF IngestsCurrent

(* A pipeline that has read every file and is not outdated holds them.     *)
LEMMA UpToDate ==
  ASSUME TypeOK, NEW j \in Pipelines, InOrder(j, job[j], disk), Running(j), ~Outdated(j),
         Len(job[j].seen) = Len(Files)
  PROVE  job[j].seen = Current /\ IngestsCurrent(job[j].chunks)
<1>1. job[j] \in Pipeline
  BY DEF TypeOK
<1>2. job[j].seen \in Seq(Nat) /\ job[j].chunks \in Seq(Chunk)
  BY <1>1 DEF Pipeline
<1>3. job[j].seen = Current
  <2> DEFINE seen == job[j].seen
  <2>1. \A n \in DOMAIN seen : seen[n] = disk[Files[n]]
    BY DEF Outdated
  <2>2. seen \in Seq(Nat) /\ Len(seen) = Len(Files)
    BY <1>2
  <2> HIDE DEF seen
  <2>3. DOMAIN seen = 1 .. Len(Files) /\ seen = [n \in DOMAIN seen |-> seen[n]]
    BY <2>2
  <2>4. seen = [n \in 1 .. Len(Files) |-> disk[Files[n]]]
    BY <2>1, <2>3
  <2> QED
    BY <2>4 DEF Current, seen
<1> QED
  BY <1>2, <1>3 DEF IngestsCurrent, InOrder

LEMMA SyncTypes ==
  ASSUME TypeOK
  PROVE  /\ disk \in [Docs -> Nat] /\ job \in [Pipelines -> Pipeline]
         /\ \A j \in Pipelines :
              /\ job[j] \in Pipeline
              /\ job[j].seen \in Seq(Nat) /\ Len(job[j].seen) \in Nat
              /\ job[j].chunks \in Seq(Chunk) /\ Len(job[j].chunks) \in Nat
              /\ job[j].stored \in Nat /\ job[j].stored <= Len(job[j].chunks)
              /\ job[j].personas \in [NpcDocs -> Nat] /\ job[j].alone \in BOOLEAN
              /\ job[j].pc \in {"idle", "reading", "storing", "loading", "setting", "over"}
         /\ Files \in Seq(Docs) /\ Len(Files) \in Nat /\ BatchSize \in Nat \ {0}
         /\ \A n \in 1 .. Len(Files) : Files[n] \in Docs
         /\ \A d \in Docs : 0 < disk[d]
<1>1. /\ disk \in [Docs -> Nat] /\ job \in [Pipelines -> Pipeline]
      /\ \A j \in Pipelines : job[j] \in Pipeline /\ job[j].stored <= Len(job[j].chunks)
  BY DEF TypeOK
<1>2. \A j \in Pipelines :
        /\ job[j].seen \in Seq(Nat) /\ job[j].chunks \in Seq(Chunk)
        /\ job[j].stored \in Nat /\ job[j].personas \in [NpcDocs -> Nat] /\ job[j].alone \in BOOLEAN
        /\ job[j].pc \in {"idle", "reading", "storing", "loading", "setting", "over"}
  BY <1>1 DEF Pipeline
<1>3. \A j \in Pipelines : Len(job[j].seen) \in Nat /\ Len(job[j].chunks) \in Nat
  BY <1>2
<1>4. Files \in Seq(Docs) /\ BatchSize \in Nat \ {0}
  BY KnowledgeAssumption
<1>5. Len(Files) \in Nat /\ \A n \in 1 .. Len(Files) : Files[n] \in Docs
  BY <1>4
<1>6. ASSUME NEW d \in Docs PROVE 0 < disk[d]
  <2>1. Versions[d] \in Seq(Seq(Section)) /\ disk[d] \in DOMAIN Versions[d]
    BY KnowledgeAssumption DEF TypeOK
  <2> QED
    BY <2>1
<1> QED
  BY <1>1, <1>2, <1>3, <1>4, <1>5, <1>6

LEMMA RenewedInOrder ==
  ASSUME NEW j \in Pipelines, NEW pc \in {"idle", "reading", "loading", "over"},
         pc = "loading" => j = "startup", NEW files, KInv
  PROVE  InOrder(j, NewPipeline(pc), files)
<1> DEFINE p == NewPipeline(pc)
<1>1. /\ p.pc = pc /\ p.seen = <<>> /\ p.chunks = <<>> /\ p.stored = 0 /\ p.alone = FALSE
  BY DEF NewPipeline
<1>2. Parts(<<>>) = <<>>
  BY DEF Parts
<1>3. Len(Files) \in Nat /\ Len(<<>>) = 0 /\ 1 .. 0 = {}
  BY KnowledgeAssumption
<1> HIDE DEF p
<1>4. \E off : Joined(p.chunks, Parts(p.seen), off)
  BY <1>1, <1>2, NothingJoined
<1>5. InOrder(j, p, files)
  BY <1>1, <1>3, <1>4 DEF InOrder
<1> QED
  BY <1>5 DEF p

(* Pipelines that start, end or start over.                                *)
SomeRenewed ==
  /\ disk' = disk /\ collection' = collection
  /\ \A k \in Pipelines :
       \/ job'[k] = job[k]
       \/ \E pc \in {"idle", "reading", "loading", "over"} :
            job'[k] = NewPipeline(pc) /\ (pc = "loading" => k = "startup")

LEMMA Renewed ==
  ASSUME SyncInv, SomeRenewed
  PROVE  /\ AllInOrder' /\ StoredSoFar'
         /\ (\A k \in Pipelines : ~Outdated(k)) => \A k \in Pipelines : ~Outdated(k)'
         /\ \A k \in Pipelines : job'[k].alone => job'[k] = job[k]
         /\ \A k \in Pipelines : job'[k].pc = "setting" => job'[k] = job[k]
<1>1. ASSUME NEW k \in Pipelines, NEW pc \in {"idle", "reading", "loading", "over"},
             job'[k] = NewPipeline(pc)
      PROVE  job'[k].pc # "setting" /\ ~job'[k].alone /\ job'[k].seen = <<>>
  BY <1>1 DEF NewPipeline
<1>2. \A k \in Pipelines :
        \/ job'[k] = job[k]
        \/ job'[k].pc # "setting" /\ ~job'[k].alone /\ job'[k].seen = <<>>
  BY <1>1 DEF SomeRenewed
<1>3. AllInOrder'
  <2> SUFFICES ASSUME NEW k \in Pipelines PROVE InOrder(k, job'[k], disk')
    BY DEF AllInOrder
  <2>1. InOrder(k, job[k], disk)
    BY DEF SyncInv, AllInOrder
  <2> QED
    BY <2>1, RenewedInOrder DEF SomeRenewed, SyncInv
<1>4. StoredSoFar'
  BY <1>2 DEF SyncInv, StoredSoFar, SomeRenewed, Placed
<1>5. ASSUME \A k \in Pipelines : ~Outdated(k), NEW k \in Pipelines
      PROVE  ~Outdated(k)'
  <2>1. CASE job'[k] = job[k]
    BY <1>5, <2>1 DEF Outdated, Running, SomeRenewed
  <2>2. CASE job'[k].seen = <<>>
    BY <2>2 DEF Outdated
  <2> QED
    BY <1>2, <2>1, <2>2
<1> QED
  BY <1>2, <1>3, <1>4, <1>5

LEMMA SameFiles ==
  ASSUME disk' = disk
  PROVE  \A all : IngestsCurrent(all)' <=> IngestsCurrent(all)
BY DEF IngestsCurrent, Current

(* A batch stands under its ids; chunks of the same ingestion stay.        *)
LEMMA UpsertPlaces ==
  ASSUME NEW all \in Seq(Chunk), NEW from \in Nat, NEW to \in Nat,
         0 < from, to <= Len(all), collection' = Upsert(collection, all, from, to)
  PROVE  \A i \in 1 .. Len(all) : i \in from .. to \/ Placed(all[i], i) => Placed(all[i], i)'
<1> DEFINE range == from .. to
           ids == {ChunkId(all[i], i) : i \in range}
<1> SUFFICES ASSUME NEW i \in 1 .. Len(all), i \in range \/ Placed(all[i], i)
             PROVE  ChunkId(all[i], i) \in DOMAIN collection' /\ collection'[ChunkId(all[i], i)] = all[i]
  BY DEF Placed, ChunkId
<1> DEFINE id == ChunkId(all[i], i)
<1>1. collection' = [x \in DOMAIN collection \cup ids |->
                       IF x \in ids THEN all[CHOOSE n \in range : ChunkId(all[n], n) = x]
                       ELSE collection[x]]
  BY DEF Upsert
<1>2. \A n \in range : ChunkId(all[n], n) = id => n = i
  BY DEF ChunkId
<1>3. CASE id \in ids
  <2>1. PICK n \in range : ChunkId(all[n], n) = id
    BY <1>3
  <2>2. (CHOOSE m \in range : ChunkId(all[m], m) = id) = i
    BY <1>2, <2>1
  <2> HIDE DEF ids, id, range
  <2> QED
    BY <1>1, <1>3, <2>2 DEF id
<1>4. CASE id \notin ids
  <2>1. Placed(all[i], i)
    BY <1>4
  <2>2. id \in DOMAIN collection /\ collection[id] = all[i]
    BY <2>1 DEF Placed
  <2> HIDE DEF ids, id, range
  <2>3. id \in DOMAIN collection' /\ collection'[id] = all[i]
    BY <1>1, <1>4, <2>2
  <2> QED
    BY <2>3 DEF id
<1> QED
  BY <1>3, <1>4

(* What is left of the invariant when the pipelines and the types are      *)
(* settled.                                                                *)
SyncKept ==
  AllInOrder' /\ StartupFirst' /\ Undisturbed' /\ StoredSoFar' /\ AllStored' /\ PersonasCurrent'

LEMMA EditSync ==
  ASSUME SyncInv, NEW d \in Docs, Edit(d)
  PROVE  SyncKept
<1>1. /\ disk' = [disk EXCEPT ![d] = @ + 1]
      /\ job' = [k \in Pipelines |-> [job[k] EXCEPT !.alone = FALSE]]
      /\ synced' = FALSE /\ collection' = collection /\ server' = server /\ registry' = registry
  BY DEF Edit
<1>2. TypeOK
  BY DEF SyncInv, KInv
<1>3. \A x \in Docs : disk[x] \in Nat /\ disk'[x] \in Nat /\ disk[x] <= disk'[x]
  BY <1>1, <1>2, SyncTypes
<1>4. \A k \in Pipelines :
        /\ job'[k].alone = FALSE
        /\ job'[k].pc = job[k].pc /\ job'[k].seen = job[k].seen /\ job'[k].chunks = job[k].chunks
        /\ job'[k].stored = job[k].stored /\ job'[k].personas = job[k].personas
  BY <1>1, <1>2, SyncTypes DEF Pipeline
<1>5. AllInOrder'
  <2> SUFFICES ASSUME NEW k \in Pipelines PROVE InOrder(k, job'[k], disk')
    BY DEF AllInOrder
  <2>1. InOrder(k, job[k], disk)
    BY DEF SyncInv, AllInOrder
  <2>2. \E off : Joined(job'[k].chunks, Parts(job'[k].seen), off)
    BY <1>4, <2>1 DEF InOrder
  <2>3. \A n \in 1 .. Len(job[k].seen) :
          /\ Files[n] \in Docs
          /\ job[k].seen[n] \in Nat
          /\ Files[n] \in NpcDocs => job[k].personas[Files[n]] \in Nat
    <3> TAKE n \in 1 .. Len(job[k].seen)
    <3>1. n \in 1 .. Len(Files)
      BY <1>2, <2>1, SyncTypes DEF InOrder
    <3> QED
      BY <1>2, <3>1, SyncTypes
  <2>4. \A n \in 1 .. Len(job[k].seen) :
          /\ 0 < job[k].seen[n] /\ job[k].seen[n] <= disk[Files[n]]
          /\ job[k].pc = "setting" /\ Files[n] \in NpcDocs =>
                job[k].seen[n] <= job[k].personas[Files[n]] /\ job[k].personas[Files[n]] <= disk[Files[n]]
    BY <2>1 DEF InOrder
  <2>5. \A n \in 1 .. Len(job'[k].seen) :
          /\ 0 < job'[k].seen[n] /\ job'[k].seen[n] <= disk'[Files[n]]
          /\ job'[k].pc = "setting" /\ Files[n] \in NpcDocs =>
                job'[k].seen[n] <= job'[k].personas[Files[n]] /\ job'[k].personas[Files[n]] <= disk'[Files[n]]
    BY <1>3, <1>4, <2>3, <2>4
  <2> QED
    BY <1>4, <2>1, <2>2, <2>5 DEF InOrder
<1>6. StartupFirst'
  BY <1>1, <1>4 DEF SyncInv, StartupFirst, Running
<1>7. Undisturbed' /\ StoredSoFar' /\ AllStored' /\ PersonasCurrent'
  BY <1>1, <1>4 DEF Undisturbed, StoredSoFar, AllStored, PersonasCurrent
<1> QED
  BY <1>5, <1>6, <1>7 DEF SyncKept

LEMMA RenewedRunning ==
  ASSUME NEW pc \in {"idle", "reading", "loading", "over"}
  PROVE  NewPipeline(pc).pc = pc
BY DEF NewPipeline

(* Start, stop and failure of pipelines leave the registry alone. *)
LEMMA QuietSync ==
  ASSUME SyncInv, SomeRenewed, synced' = synced, server' = "up" => registry' = registry /\ server = "up"
  PROVE  AllInOrder' /\ Undisturbed' /\ StoredSoFar' /\ AllStored' /\ PersonasCurrent'
<1>1. /\ AllInOrder' /\ StoredSoFar'
      /\ (\A k \in Pipelines : ~Outdated(k)) => \A k \in Pipelines : ~Outdated(k)'
      /\ \A k \in Pipelines : job'[k].alone => job'[k] = job[k]
      /\ \A k \in Pipelines : job'[k].pc = "setting" => job'[k] = job[k]
  BY Renewed
<1>2. Undisturbed'
  BY <1>1 DEF SyncInv, Undisturbed
<1>3. AllStored'
  <2>1. \A all : IngestsCurrent(all)' <=> IngestsCurrent(all)
    BY SameFiles DEF SomeRenewed
  <2>2. \A all : \A i \in 1 .. Len(all) : Placed(all[i], i)' <=> Placed(all[i], i)
    BY DEF SomeRenewed, Placed
  <2> QED
    BY <2>1, <2>2 DEF SyncInv, AllStored
<1>4. PersonasCurrent'
  BY <1>1 DEF SyncInv, PersonasCurrent, SomeRenewed
<1> QED
  BY <1>1, <1>2, <1>3, <1>4

LEMMA CrashSync ==
  ASSUME SyncInv, Crash
  PROVE  SyncKept
<1>1. \A k \in Pipelines : job'[k] \in {NewPipeline("idle"), NewPipeline("over")}
  BY DEF Crash, Idle
<1>2. SomeRenewed
  BY <1>1 DEF Crash, SomeRenewed
<1>3. StartupFirst'
  BY <1>1, RenewedRunning DEF StartupFirst, Running
<1>4. AllInOrder' /\ Undisturbed' /\ StoredSoFar' /\ AllStored' /\ PersonasCurrent'
  BY <1>2, QuietSync DEF Crash
<1> QED
  BY <1>3, <1>4 DEF SyncKept

LEMMA BootSync ==
  ASSUME SyncInv, Boot
  PROVE  SyncKept
<1>1. PICK pc \in {"reading", "loading"} : job' = [job EXCEPT !["startup"] = NewPipeline(pc)]
  BY DEF Boot
<1>2. job \in [Pipelines -> Pipeline]
  BY DEF SyncInv, KInv, TypeOK
<1>3. /\ job'["startup"] = NewPipeline(pc)
      /\ \A k \in Pipelines : k # "startup" => job'[k] = job[k]
  BY <1>1, <1>2 DEF Pipelines
<1>4. SomeRenewed
  BY <1>3 DEF Boot, SomeRenewed
<1>5. StartupFirst'
  BY <1>3, RenewedRunning DEF SyncInv, StartupFirst, Running, Boot
<1>6. AllInOrder' /\ Undisturbed' /\ StoredSoFar' /\ AllStored' /\ PersonasCurrent'
  BY <1>4, QuietSync DEF Boot
<1> QED
  BY <1>5, <1>6 DEF SyncKept

LEMMA RequestSync ==
  ASSUME SyncInv, NEW j \in Reloads, RequestReload(j)
  PROVE  SyncKept
<1>1. job \in [Pipelines -> Pipeline] /\ j \in Pipelines
  BY DEF SyncInv, KInv, TypeOK, Pipelines
<1>2. /\ job'[j] = NewPipeline("reading")
      /\ \A k \in Pipelines : k # j => job'[k] = job[k]
  BY <1>1 DEF RequestReload
<1>3. SomeRenewed
  BY <1>2 DEF RequestReload, SomeRenewed
<1>4. StartupFirst'
  BY <1>2, RenewedRunning DEF SyncInv, StartupFirst, Running, RequestReload
<1>5. AllInOrder' /\ Undisturbed' /\ StoredSoFar' /\ AllStored' /\ PersonasCurrent'
  BY <1>3, QuietSync DEF RequestReload
<1> QED
  BY <1>4, <1>5 DEF SyncKept

LEMMA FailureSync ==
  ASSUME SyncInv, NEW j \in Pipelines, IngestionFails(j)
  PROVE  SyncKept
<1>1. job \in [Pipelines -> Pipeline]
  BY DEF SyncInv, KInv, TypeOK
<1>2. PICK pc \in {"loading", "over"} :
        /\ pc = "loading" => j = "startup"
        /\ job'[j] = NewPipeline(pc)
  BY <1>1 DEF IngestionFails
<1>3. \A k \in Pipelines : k # j => job'[k] = job[k]
  BY <1>1 DEF IngestionFails
<1>4. SomeRenewed
  BY <1>2, <1>3 DEF IngestionFails, SomeRenewed
<1>5. StartupFirst'
  <2>1. \A k \in Pipelines : Running(k)' => Running(k)
    BY <1>3 DEF Running, IngestionFails
  <2> QED
    BY <2>1 DEF SyncInv, StartupFirst, IngestionFails
<1>6. AllInOrder' /\ Undisturbed' /\ StoredSoFar' /\ AllStored' /\ PersonasCurrent'
  BY <1>4, QuietSync DEF IngestionFails
<1> QED
  BY <1>5, <1>6 DEF SyncKept

LEMMA StutterSync ==
  ASSUME SyncInv, UNCHANGED knowledgeVars
  PROVE  SyncKept
<1>1. SomeRenewed /\ synced' = synced /\ registry' = registry /\ server' = server
  BY DEF SomeRenewed, knowledgeVars
<1>2. AllInOrder' /\ Undisturbed' /\ StoredSoFar' /\ AllStored' /\ PersonasCurrent'
  BY <1>1, QuietSync
<1>3. StartupFirst'
  BY DEF SyncInv, StartupFirst, Running, knowledgeVars
<1> QED
  BY <1>2, <1>3 DEF SyncKept

LEMMA LoadPersonasSync ==
  ASSUME SyncInv, NEW j \in Pipelines, LoadPersonas(j)
  PROVE  SyncKept
<1> DEFINE present == [d \in NpcDocs |-> disk[d]]
<1>1. TypeOK
  BY DEF SyncInv, KInv
<1>2. /\ disk' = disk /\ collection' = collection /\ server' = server
      /\ registry' = registry /\ synced' = synced
      /\ job[j].pc = "loading"
  BY DEF LoadPersonas
<1>3. /\ job'[j].pc = "setting" /\ job'[j].personas = present
      /\ job'[j].seen = job[j].seen /\ job'[j].chunks = job[j].chunks
      /\ job'[j].stored = job[j].stored /\ job'[j].alone = job[j].alone
      /\ \A k \in Pipelines : k # j => job'[k] = job[k]
  BY <1>1, SyncTypes DEF LoadPersonas, Pipeline
<1> HIDE DEF present
<1>4. AllInOrder'
  <2> SUFFICES ASSUME NEW k \in Pipelines PROVE InOrder(k, job'[k], disk')
    BY DEF AllInOrder
  <2>1. InOrder(k, job[k], disk)
    BY DEF SyncInv, AllInOrder
  <2>2. CASE k # j
    BY <1>2, <1>3, <2>1, <2>2
  <2>3. CASE k = j
    <3>1. \A n \in 1 .. Len(job[j].seen) :
            /\ 0 < job[j].seen[n] /\ job[j].seen[n] <= disk[Files[n]]
            /\ Files[n] \in NpcDocs => present[Files[n]] = disk[Files[n]] /\ disk[Files[n]] \in Nat
      BY <1>1, <2>1, <2>3, SyncTypes DEF InOrder, present, NpcDocs
    <3>2. \A n \in 1 .. Len(job'[j].seen) :
            /\ 0 < job'[j].seen[n] /\ job'[j].seen[n] <= disk[Files[n]]
            /\ job'[j].pc = "setting" /\ Files[n] \in NpcDocs =>
                 job'[j].seen[n] <= job'[j].personas[Files[n]] /\ job'[j].personas[Files[n]] <= disk[Files[n]]
      BY <1>3, <3>1
    <3>3. /\ \E off : Joined(job[j].chunks, Parts(job[j].seen), off)
          /\ Len(job[j].seen) <= Len(Files)
          /\ \/ Len(job[j].seen) = Len(Files) /\ job[j].stored = Len(job[j].chunks)
             \/ j = "startup" /\ job[j].seen = <<>> /\ ~job[j].alone
      BY <1>2, <2>1, <2>3 DEF InOrder
    <3> QED
      BY <1>2, <1>3, <2>3, <3>2, <3>3 DEF InOrder
  <2> QED
    BY <2>2, <2>3
<1>5. StartupFirst'
  BY <1>2, <1>3 DEF SyncInv, StartupFirst, Running
<1>6. Undisturbed'
  <2>1. \A k \in Pipelines : Outdated(k)' => Outdated(k)
    BY <1>2, <1>3 DEF Outdated, Running
  <2>2. \A k \in Pipelines : job'[k].alone = job[k].alone
    BY <1>3
  <2> QED
    BY <1>2, <2>1, <2>2 DEF SyncInv, Undisturbed
<1>7. StoredSoFar'
  <2>1. \A k \in Pipelines : /\ job'[k].alone = job[k].alone /\ job'[k].stored = job[k].stored
                              /\ job'[k].chunks = job[k].chunks
    BY <1>3
  <2> QED
    BY <1>2, <2>1 DEF SyncInv, StoredSoFar, Placed
<1>8. AllStored'
  <2>1. \A all : IngestsCurrent(all)' <=> IngestsCurrent(all)
    BY <1>2, SameFiles
  <2>2. \A all : \A i \in 1 .. Len(all) : Placed(all[i], i)' <=> Placed(all[i], i)
    BY <1>2 DEF Placed
  <2> QED
    BY <1>2, <2>1, <2>2 DEF SyncInv, AllStored
<1>9. PersonasCurrent'
  BY <1>2, <1>3 DEF SyncInv, PersonasCurrent, present
<1> QED
  BY <1>4, <1>5, <1>6, <1>7, <1>8, <1>9 DEF SyncKept

(* The personas of a pipeline that is not outdated are the present ones.   *)
LEMMA PersonasRead ==
  ASSUME SyncInv, NEW j \in Pipelines, job[j].pc = "setting", ~Outdated(j),
         Len(job[j].seen) = Len(Files)
  PROVE  job[j].personas = [d \in NpcDocs |-> disk[d]]
<1>1. TypeOK /\ InOrder(j, job[j], disk)
  BY DEF SyncInv, KInv, AllInOrder
<1>2. ASSUME NEW d \in NpcDocs PROVE job[j].personas[d] = disk[d]
  <2>1. PICK n \in DOMAIN Files : Files[n] = d
    BY KnowledgeAssumption DEF NpcDocs
  <2>2. n \in 1 .. Len(job[j].seen) /\ n \in DOMAIN job[j].seen
    BY <1>1, SyncTypes, <2>1
  <2>3. job[j].seen[n] = disk[d]
    BY <2>1, <2>2 DEF Outdated, Running
  <2>4. job[j].seen[n] <= job[j].personas[d] /\ job[j].personas[d] <= disk[d]
    BY <1>1, <2>1, <2>2 DEF InOrder
  <2>5. disk[d] \in Nat /\ job[j].personas[d] \in Nat
    BY <1>1, SyncTypes DEF NpcDocs
  <2> QED
    BY <2>3, <2>4, <2>5
<1>3. job[j].personas \in [NpcDocs -> Nat]
  BY <1>1, SyncTypes
<1> QED
  BY <1>2, <1>3

LEMMA SetRegistrySync ==
  ASSUME SyncInv, NEW j \in Pipelines, SetRegistry(j)
  PROVE  SyncKept
<1> DEFINE present == [d \in NpcDocs |-> disk[d]]
<1>1. TypeOK /\ InOrder(j, job[j], disk)
  BY DEF SyncInv, KInv, AllInOrder
<1>2. /\ job[j].pc = "setting" /\ registry' = job[j].personas /\ synced' = (synced \/ job[j].alone)
      /\ server' = "up" /\ disk' = disk /\ collection' = collection
  BY DEF SetRegistry
<1>3. /\ job'[j] = NewPipeline("over")
      /\ \A k \in Pipelines : k # j => job'[k] = job[k]
  BY <1>1, SyncTypes DEF SetRegistry
<1>4. SomeRenewed
  BY <1>2, <1>3 DEF SomeRenewed
<1>5. /\ AllInOrder' /\ StoredSoFar'
      /\ (\A k \in Pipelines : ~Outdated(k)) => \A k \in Pipelines : ~Outdated(k)'
      /\ \A k \in Pipelines : job'[k].alone => job'[k] = job[k]
      /\ \A k \in Pipelines : job'[k].pc = "setting" => job'[k] = job[k]
  BY <1>4, Renewed
<1>6. StartupFirst'
  <2>1. \A k \in Pipelines : Running(k)' => k # j /\ Running(k)
    BY <1>3, RenewedRunning DEF Running
  <2>2. ASSUME NEW k \in Pipelines, Running(k)' PROVE k # "startup"
    <3>1. k # j /\ Running(k) /\ Running(j)
      BY <1>2, <2>1, <2>2 DEF Running
    <3> QED
      BY <3>1 DEF SyncInv, StartupFirst
  <2> QED
    BY <1>2, <2>2 DEF StartupFirst
<1>7. Undisturbed'
  BY <1>2, <1>5 DEF SyncInv, Undisturbed
<1>8. \/ Len(job[j].seen) = Len(Files) /\ job[j].stored = Len(job[j].chunks)
      \/ j = "startup" /\ job[j].seen = <<>> /\ ~job[j].alone
  BY <1>1, <1>2 DEF InOrder
<1>9. synced' => ~Outdated(j)
  BY <1>2 DEF SyncInv, Undisturbed
<1>10. AllStored'
  <2>1. \A all : IngestsCurrent(all)' <=> IngestsCurrent(all)
    BY <1>2, SameFiles
  <2>2. \A all : \A i \in 1 .. Len(all) : Placed(all[i], i)' <=> Placed(all[i], i)
    BY <1>2 DEF Placed
  <2>3. CASE synced
    BY <2>1, <2>2, <2>3 DEF SyncInv, AllStored
  <2>4. CASE job[j].alone
    <3>1. ~Outdated(j) /\ Running(j)
      BY <1>2, <1>9, <2>4 DEF Running
    <3>2. IngestsCurrent(job[j].chunks)
      BY <1>1, <1>8, <2>4, <3>1, UpToDate
    <3>3. \A i \in 1 .. Len(job[j].chunks) : Placed(job[j].chunks[i], i)
      BY <1>8, <2>4 DEF SyncInv, StoredSoFar
    <3>4. \E all : IngestsCurrent(all)' /\ \A i \in 1 .. Len(all) : Placed(all[i], i)'
      BY <2>1, <2>2, <3>2, <3>3
    <3> QED
      BY <3>4 DEF AllStored
  <2> QED
    BY <1>2, <2>3, <2>4 DEF AllStored
<1>11. ASSUME synced' PROVE job[j].personas = present
  <2>1. CASE Len(job[j].seen) = Len(Files)
    BY <1>2, <1>9, <1>11, <2>1, PersonasRead
  <2>2. CASE job[j].seen = <<>> /\ ~job[j].alone
    BY <1>2, <1>11, <2>2 DEF SyncInv, PersonasCurrent
  <2> QED
    BY <1>8, <2>1, <2>2
<1>12. ASSUME synced', NEW k \in Pipelines, job'[k].pc = "setting", job'[k].seen = <<>>
       PROVE  job'[k].personas = present
  <2>1. job'[k] = job[k] /\ k # j
    BY <1>3, <1>5, <1>12, RenewedRunning
  <2>2. Running(k) /\ Running(j)
    BY <1>2, <1>12, <2>1 DEF Running
  <2>3. CASE synced
    BY <1>12, <2>1, <2>3 DEF SyncInv, PersonasCurrent
  <2>4. CASE job[j].alone
    <3>1. InOrder(k, job[k], disk)
      BY DEF SyncInv, AllInOrder
    <3>2. \/ Len(job[k].seen) = Len(Files)
          \/ k = "startup"
      BY <1>12, <2>1, <3>1 DEF InOrder
    <3>3. Len(Files) # 0 /\ Len(job[k].seen) = 0
      <4>1. Files \in Seq(Docs) /\ Files # <<>>
        BY KnowledgeAssumption
      <4>2. Len(Files) # 0
        BY <4>1
      <4> QED
        BY <1>12, <2>1, <4>2
    <3>4. j # "startup" \/ k # "startup"
      BY <2>1
    <3>5. (j = "startup") <=> (k = "startup")
      BY <2>2 DEF SyncInv, StartupFirst
    <3> QED
      BY <3>2, <3>3, <3>4, <3>5
  <2> QED
    BY <1>2, <1>12, <2>3, <2>4
<1>13. PersonasCurrent'
  BY <1>2, <1>11, <1>12 DEF PersonasCurrent, present
<1> QED
  BY <1>5, <1>6, <1>7, <1>10, <1>13 DEF SyncKept

(* A pipeline that is on the way to a collection in step with the files    *)
(* holds the chunks of their present versions.                             *)
LEMMA AloneIsCurrent ==
  ASSUME SyncInv, NEW j \in Pipelines, job[j].alone \/ job[j].pc = "storing",
         \A k \in Pipelines : ~Outdated(k)
  PROVE  IngestsCurrent(job[j].chunks)
<1>1. TypeOK /\ InOrder(j, job[j], disk)
  BY DEF SyncInv, KInv, AllInOrder
<1>2. job[j].pc \in {"idle", "reading", "storing", "loading", "setting", "over"}
  BY <1>1, SyncTypes
<1>3. Running(j) /\ Len(job[j].seen) = Len(Files)
  BY <1>1, <1>2 DEF InOrder, Running
<1> QED
  BY <1>1, <1>3, UpToDate

LEMMA StoreBatchSync ==
  ASSUME SyncInv, NEW j \in Pipelines, StoreBatch(j)
  PROVE  SyncKept
<1>0. PICK chunks : chunks = job[j].chunks
  OBVIOUS
<1> DEFINE from == job[j].stored + 1
           to == IF job[j].stored + BatchSize < Len(chunks)
                 THEN job[j].stored + BatchSize ELSE Len(chunks)
<1>1. TypeOK /\ InOrder(j, job[j], disk)
  BY DEF SyncInv, KInv, AllInOrder
<1>2. /\ disk' = disk /\ server' = server /\ registry' = registry /\ synced' = synced
      /\ job[j].pc = "storing"
      /\ collection' = Upsert(collection, chunks, from, to)
  BY <1>0 DEF StoreBatch
<1>3. /\ chunks \in Seq(Chunk) /\ from \in Nat /\ 0 < from
      /\ to \in Nat /\ to <= Len(chunks) /\ job[j].stored \in Nat
  BY <1>0, <1>1, SyncTypes
<1>4. /\ job'[j].stored = to
      /\ job'[j].pc = IF to < Len(chunks) THEN "storing" ELSE "loading"
      /\ job'[j].seen = job[j].seen /\ job'[j].chunks = chunks
      /\ job'[j].personas = job[j].personas /\ job'[j].alone = job[j].alone
      /\ \A k \in Pipelines : k # j => job'[k] = job[k]
  BY <1>0, <1>1, SyncTypes DEF StoreBatch, Pipeline
<1>5. to < Len(chunks) \/ to = Len(chunks)
  BY <1>0, <1>1, SyncTypes
<1>6. \A i \in 1 .. to : i \in 1 .. Len(chunks) /\ (i <= job[j].stored \/ i \in from .. to)
  <2>1. Len(chunks) \in Nat
    BY <1>3
  <2> QED
    BY <1>3, <2>1
<1> HIDE DEF to, from
<1>7. AllInOrder'
  <2> SUFFICES ASSUME NEW k \in Pipelines PROVE InOrder(k, job'[k], disk')
    BY DEF AllInOrder
  <2>1. InOrder(k, job[k], disk)
    BY DEF SyncInv, AllInOrder
  <2>2. CASE k # j
    BY <1>2, <1>4, <2>1, <2>2
  <2>3. CASE k = j
    <3>1. /\ \E off : Joined(job'[j].chunks, Parts(job'[j].seen), off)
          /\ Len(job'[j].seen) = Len(Files)
          /\ Len(job'[j].seen) <= Len(Files)
      BY <1>0, <1>2, <1>4, <2>1, <2>3 DEF InOrder
    <3>2. /\ job'[j].pc \in {"storing", "loading"}
          /\ job'[j].pc = "loading" => job'[j].stored = Len(job'[j].chunks)
      BY <1>4, <1>5
    <3>3. \A n \in 1 .. Len(job'[j].seen) : 0 < job'[j].seen[n] /\ job'[j].seen[n] <= disk'[Files[n]]
      BY <1>2, <1>4, <2>1, <2>3 DEF InOrder
    <3> QED
      BY <2>3, <3>1, <3>2, <3>3 DEF InOrder
  <2> QED
    BY <2>2, <2>3
<1>8. \A k \in Pipelines : Running(k)' => Running(k)
  BY <1>2, <1>4 DEF Running
<1>9. StartupFirst'
  BY <1>2, <1>8 DEF SyncInv, StartupFirst
<1>10. \A k \in Pipelines : job'[k].alone = job[k].alone /\ job'[k].seen = job[k].seen
                            /\ job'[k].chunks = job[k].chunks
  BY <1>0, <1>4
<1>11. Undisturbed'
  <2>1. \A k \in Pipelines : Outdated(k)' => Outdated(k)
    BY <1>2, <1>8, <1>10 DEF Outdated
  <2> QED
    BY <1>2, <1>10, <2>1 DEF SyncInv, Undisturbed
<1>12. ASSUME NEW all, IngestsCurrent(all), \A k \in Pipelines : ~Outdated(k)
       PROVE  /\ all = chunks
              /\ \A i \in 1 .. Len(all) : i \in from .. to \/ Placed(all[i], i) => Placed(all[i], i)'
  <2>1. IngestsCurrent(chunks)
    BY <1>0, <1>2, <1>12, AloneIsCurrent
  <2>2. all = chunks
    BY <1>1, <1>12, <2>1, CurrentOnce
  <2>3. \A i \in 1 .. Len(chunks) : i \in from .. to \/ Placed(chunks[i], i) => Placed(chunks[i], i)'
    BY <1>2, <1>3, UpsertPlaces
  <2> QED
    BY <2>2, <2>3
<1>13. StoredSoFar'
  <2> SUFFICES ASSUME NEW k \in Pipelines, job'[k].alone, NEW i \in 1 .. job'[k].stored
               PROVE  \E c : c = job'[k].chunks[i] /\ Placed(c, i)'
    BY DEF StoredSoFar, Placed
  <2>1. job[k].alone
    BY <1>10
  <2>2. \A l \in Pipelines : ~Outdated(l)
    BY <2>1 DEF SyncInv, Undisturbed
  <2>3. PICK all : all = job[k].chunks
    OBVIOUS
  <2>4. IngestsCurrent(all)
    BY <2>1, <2>2, <2>3, AloneIsCurrent
  <2>5. all = chunks /\ \A n \in 1 .. Len(all) : n \in from .. to \/ Placed(all[n], n) => Placed(all[n], n)'
    BY <1>12, <2>2, <2>4
  <2>6. i \in 1 .. Len(all) /\ (i \in 1 .. job[k].stored \/ i \in from .. to)
    <3>1. CASE k = j
      BY <1>3, <1>4, <1>6, <2>3, <3>1, <1>0
    <3>2. CASE k # j
      BY <1>1, <1>4, <2>3, <3>2, SyncTypes
    <3> QED
      BY <3>1, <3>2
  <2>7. i \in 1 .. job[k].stored => Placed(all[i], i)
    BY <2>1, <2>3 DEF SyncInv, StoredSoFar
  <2>8. Placed(all[i], i)'
    BY <2>5, <2>6, <2>7
  <2> QED
    BY <1>10, <2>3, <2>8
<1>14. AllStored'
  <2> SUFFICES ASSUME synced PROVE \E all : IngestsCurrent(all)' /\ \A i \in 1 .. Len(all) : Placed(all[i], i)'
    BY <1>2 DEF AllStored
  <2>1. PICK all : IngestsCurrent(all) /\ \A i \in 1 .. Len(all) : Placed(all[i], i)
    BY DEF SyncInv, AllStored
  <2>2. \A k \in Pipelines : ~Outdated(k)
    BY DEF SyncInv, Undisturbed
  <2>3. \A i \in 1 .. Len(all) : Placed(all[i], i)'
    BY <1>12, <2>1, <2>2
  <2>4. IngestsCurrent(all)'
    BY <1>2, <2>1, SameFiles
  <2> QED
    BY <2>3, <2>4
<1>15. PersonasCurrent'
  BY <1>2, <1>4 DEF SyncInv, PersonasCurrent
<1> QED
  BY <1>7, <1>9, <1>11, <1>13, <1>14, <1>15 DEF SyncKept

LEMMA ReadFileSync ==
  ASSUME SyncInv, NEW j \in Pipelines, ReadFile(j)
  PROVE  SyncKept
<1> DEFINE n == Len(job[j].seen) + 1
           d == Files[n]
           new == ChunksOf(d, disk[d])
           p == [job[j] EXCEPT !.seen = Append(@, disk[d]), !.chunks = @ \o new]
           quiet == \A k \in Pipelines : ~Outdated(k)
           q == AfterFile(p, quiet)
<1>1. TypeOK /\ InOrder(j, job[j], disk)
  BY DEF SyncInv, KInv, AllInOrder
<1>2. /\ disk' = disk /\ collection' = collection /\ server' = server
      /\ registry' = registry /\ synced' = synced
      /\ job[j].pc = "reading" /\ Len(job[j].seen) < Len(Files)
      /\ job' = [job EXCEPT ![j] = q]
  BY DEF ReadFile
<1>3. /\ n \in 1 .. Len(Files) /\ d \in Docs /\ disk[d] \in Nat /\ 0 < disk[d]
  BY <1>1, <1>2, SyncTypes
<1>4. /\ ~job[j].alone /\ job[j].stored = 0
      /\ \E off : Joined(job[j].chunks, Parts(job[j].seen), off)
      /\ \A m \in 1 .. Len(job[j].seen) : 0 < job[j].seen[m] /\ job[j].seen[m] <= disk[Files[m]]
      /\ Len(job[j].seen) <= Len(Files)
  BY <1>1, <1>2 DEF InOrder
<1>5. /\ new \in Seq(Chunk) /\ Parts(job[j].seen) \in Seq(Seq(Chunk))
  <2>1. Parts(job[j].seen) \in Seq(Seq(Chunk))
    BY <1>1, <1>4, SyncTypes, PartsType
  <2>2. disk[d] \in DOMAIN Versions[d]
    BY <1>1, <1>3 DEF TypeOK
  <2> QED
    BY <1>3, <2>1, <2>2, ChunksOfVersion
<1>6. Parts(Append(job[j].seen, disk[d])) = Append(Parts(job[j].seen), new)
  BY <1>1, <1>3, SyncTypes, PartsGrow
<1> HIDE DEF new, quiet
<1>7. /\ p.seen = Append(job[j].seen, disk[d]) /\ p.chunks = job[j].chunks \o new
      /\ p.pc = "reading" /\ p.stored = 0 /\ p.alone = FALSE /\ p.personas = job[j].personas
      /\ p \in [pc : {"idle", "reading", "storing", "loading", "setting", "over"},
                 seen : Seq(Nat), chunks : Seq(Chunk), stored : Nat,
                 personas : [NpcDocs -> Nat], alone : BOOLEAN]
  <2>1. job[j] \in Pipeline /\ job[j].alone = FALSE
    BY <1>1, <1>4, SyncTypes
  <2>2. Append(job[j].seen, disk[d]) \in Seq(Nat) /\ job[j].chunks \o new \in Seq(Chunk)
    BY <1>1, <1>3, <1>5, SyncTypes
  <2> QED
    BY <1>2, <1>4, <2>1, <2>2 DEF Pipeline
<1>8. \E off : Joined(p.chunks, Parts(p.seen), off)
  <2>1. job[j].chunks \in Seq(Chunk)
    BY <1>1, SyncTypes
  <2>2. \E off : Joined(job[j].chunks \o new, Append(Parts(job[j].seen), new), off)
    BY <1>4, <1>5, <2>1, JoinedGrows
  <2> HIDE DEF p
  <2> QED
    BY <1>6, <1>7, <2>2
<1>9. /\ Len(p.seen) = n /\ n \in Nat
      /\ \A m \in 1 .. n : 0 < p.seen[m] /\ p.seen[m] <= disk[Files[m]]
      /\ \A m \in 1 .. n : m = n => p.seen[m] = disk[Files[m]]
      /\ \A m \in 1 .. n : m # n => m \in 1 .. Len(job[j].seen) /\ p.seen[m] = job[j].seen[m]
  <2>1. job[j].seen \in Seq(Nat) /\ Len(job[j].seen) \in Nat
    BY <1>1, SyncTypes
  <2>2. /\ Len(p.seen) = n /\ n \in Nat /\ p.seen[n] = disk[d]
        /\ \A m \in 1 .. n : m # n => m \in 1 .. Len(job[j].seen) /\ p.seen[m] = job[j].seen[m]
    BY <1>3, <1>7, <2>1
  <2> QED
    BY <1>3, <1>4, <2>2
<1> HIDE DEF p
<1>10. /\ q.seen = p.seen /\ q.chunks = p.chunks /\ q.stored = 0
       /\ \/ n < Len(Files) /\ q.pc = "reading" /\ q.alone = FALSE
          \/ n = Len(Files) /\ q.alone = quiet
              /\ (q.pc = "storing" \/ (q.pc = "loading" /\ q.chunks = <<>>))
  <2>1. n < Len(Files) \/ (n = Len(Files) /\ ~(n < Len(Files)))
    BY <1>1, <1>3, SyncTypes
  <2>2. CASE n < Len(Files)
    <3>1. q = p
      BY <1>9, <2>2 DEF AfterFile
    <3> QED
      BY <1>7, <2>2, <3>1
  <2>3. CASE n = Len(Files) /\ ~(n < Len(Files))
    <3>1. q = IF p.chunks = <<>> THEN [p EXCEPT !.pc = "loading", !.alone = quiet]
              ELSE [p EXCEPT !.pc = "storing", !.alone = quiet]
      BY <1>9, <2>3 DEF AfterFile
    <3>2. \E pc \in {"storing", "loading"} :
            q = [p EXCEPT !.pc = pc, !.alone = quiet] /\ (pc = "loading" => p.chunks = <<>>)
      BY <3>1
    <3>3. quiet \in BOOLEAN
      BY DEF quiet
    <3> HIDE DEF q, quiet
    <3>4. PICK pc \in {"storing", "loading"} :
            q = [p EXCEPT !.pc = pc, !.alone = quiet] /\ (pc = "loading" => p.chunks = <<>>)
      BY <3>2
    <3>5. /\ q.seen = p.seen /\ q.chunks = p.chunks /\ q.stored = p.stored /\ q.pc = pc
      BY <1>7, <3>4
    <3>6. q.alone = quiet
      BY <1>7, <3>3, <3>4
    <3> QED
      BY <1>7, <2>3, <3>4, <3>5, <3>6
  <2> QED
    BY <2>1, <2>2, <2>3
<1>11. job'[j] = q /\ \A k \in Pipelines : k # j => job'[k] = job[k]
  BY <1>1, <1>2, SyncTypes
<1> HIDE DEF q, n, d
<1>12. AllInOrder'
  <2> SUFFICES ASSUME NEW k \in Pipelines PROVE InOrder(k, job'[k], disk')
    BY DEF AllInOrder
  <2>1. InOrder(k, job[k], disk)
    BY DEF SyncInv, AllInOrder
  <2>2. CASE k # j
    BY <1>2, <1>11, <2>1, <2>2
  <2>3. CASE k = j
    <3>1. /\ q.pc \in {"reading", "storing", "loading"}
          /\ q.pc = "reading" => ~q.alone
          /\ q.pc \in {"storing", "loading"} => Len(q.seen) = Len(Files)
          /\ q.pc = "loading" => q.stored = Len(q.chunks)
      <4>1. Len(<<>>) = 0
        OBVIOUS
      <4> QED
        BY <1>9, <1>10, <4>1
    <3>2. Len(q.seen) <= Len(Files)
      BY <1>3, <1>9, <1>10
    <3>3. \A m \in 1 .. Len(q.seen) : 0 < q.seen[m] /\ q.seen[m] <= disk[Files[m]]
      BY <1>9, <1>10
    <3>4. \E off : Joined(q.chunks, Parts(q.seen), off)
      BY <1>8, <1>10
    <3>5. InOrder(j, q, disk)
      BY <1>10, <3>1, <3>2, <3>3, <3>4 DEF InOrder
    <3> QED
      BY <1>2, <1>11, <2>3, <3>5
  <2> QED
    BY <2>2, <2>3
<1>13. Running(j) /\ \A k \in Pipelines : Running(k)' => Running(k)
  BY <1>2, <1>11 DEF Running
<1>14. StartupFirst'
  BY <1>2, <1>13 DEF SyncInv, StartupFirst
<1>15. quiet => \A k \in Pipelines : ~Outdated(k)'
  <2> SUFFICES ASSUME quiet, NEW k \in Pipelines PROVE ~Outdated(k)'
    OBVIOUS
  <2>1. ~Outdated(k)
    BY DEF quiet
  <2>2. CASE k # j
    BY <1>2, <1>11, <2>1, <2>2 DEF Outdated, Running
  <2>3. CASE k = j
    <3>1. \A m \in 1 .. Len(job[j].seen) : job[j].seen[m] = disk[Files[m]]
      BY <1>1, <1>13, <2>1, <2>3, SyncTypes DEF Outdated
    <3>2. \A m \in 1 .. n : q.seen[m] = disk[Files[m]]
      BY <1>9, <1>10, <3>1
    <3>3. DOMAIN q.seen = 1 .. n
      <4>1. p.seen \in Seq(Nat)
        BY <1>7
      <4> QED
        BY <1>9, <1>10, <4>1
    <3> QED
      BY <1>2, <1>11, <2>3, <3>2, <3>3 DEF Outdated
  <2> QED
    BY <2>2, <2>3
<1>16. (\E k \in Pipelines : job'[k].alone) => (\E k \in Pipelines : job[k].alone) \/ quiet
  BY <1>10, <1>11
<1>17. Undisturbed'
  <2>1. synced \/ (\E k \in Pipelines : job[k].alone) => quiet
    BY DEF SyncInv, Undisturbed, quiet
  <2> QED
    BY <1>2, <1>15, <1>16, <2>1 DEF Undisturbed
<1>18. StoredSoFar'
  <2> SUFFICES ASSUME NEW k \in Pipelines, job'[k].alone, NEW i \in 1 .. job'[k].stored
               PROVE  \E c : c = job'[k].chunks[i] /\ Placed(c, i)'
    BY DEF StoredSoFar, Placed
  <2>1. k # j
    BY <1>10, <1>11
  <2>2. job'[k] = job[k]
    BY <1>11, <2>1
  <2>3. PICK c : c = job[k].chunks[i]
    OBVIOUS
  <2>4. Placed(c, i)
    BY <2>2, <2>3 DEF SyncInv, StoredSoFar
  <2>5. Placed(c, i)'
    BY <1>2, <2>4 DEF Placed
  <2> QED
    BY <2>2, <2>3, <2>5
<1>19. AllStored'
  <2>1. \A all : IngestsCurrent(all)' <=> IngestsCurrent(all)
    BY <1>2, SameFiles
  <2>2. \A all : \A i \in 1 .. Len(all) : Placed(all[i], i)' <=> Placed(all[i], i)
    BY <1>2 DEF Placed
  <2> QED
    BY <1>2, <2>1, <2>2 DEF SyncInv, AllStored
<1>20. PersonasCurrent'
  BY <1>2, <1>10, <1>11 DEF SyncInv, PersonasCurrent
<1> QED
  BY <1>12, <1>14, <1>17, <1>18, <1>19, <1>20 DEF SyncKept

-----------------------------------------------------------------------------
LEMMA InitSyncInv == Init => SyncInv
<1> SUFFICES ASSUME Init PROVE SyncInv
  OBVIOUS
<1>1. KInv
  BY InitKInv
<1>2. \A j \in Pipelines : job[j] = NewPipeline("idle")
  BY DEF Init, Idle
<1>3. \A j \in Pipelines : job[j].pc = "idle" /\ job[j].alone = FALSE
  BY <1>2 DEF NewPipeline
<1>4. AllInOrder
  BY <1>1, <1>2, RenewedInOrder DEF AllInOrder
<1>5. StartupFirst /\ Undisturbed /\ StoredSoFar /\ AllStored /\ PersonasCurrent
  <2>1. synced = FALSE
    BY DEF Init
  <2> QED
    BY <1>3, <2>1 DEF StartupFirst, Undisturbed, StoredSoFar, AllStored, PersonasCurrent, Running
<1> QED
  BY <1>1, <1>4, <1>5 DEF SyncInv

LEMMA NextSyncInv == SyncInv /\ [Next]_knowledgeVars => SyncInv'
<1> SUFFICES ASSUME SyncInv, [Next]_knowledgeVars PROVE SyncInv'
  OBVIOUS
<1>1. KInv'
  BY NextKInv DEF SyncInv
<1>2. SyncKept
  <2>1. CASE \E d \in Docs : Edit(d)
    BY <2>1, EditSync
  <2>2. CASE Crash
    BY <2>2, CrashSync
  <2>3. CASE Boot
    BY <2>3, BootSync
  <2>4. CASE \E j \in Reloads : RequestReload(j)
    BY <2>4, RequestSync
  <2>5. ASSUME NEW j \in Pipelines, Ingest(j) PROVE SyncKept
    <3>1. CASE ReadFile(j)
      BY <3>1, ReadFileSync
    <3>2. CASE StoreBatch(j)
      BY <3>2, StoreBatchSync
    <3>3. CASE IngestionFails(j)
      BY <3>3, FailureSync
    <3>4. CASE LoadPersonas(j)
      BY <3>4, LoadPersonasSync
    <3>5. CASE SetRegistry(j)
      BY <3>5, SetRegistrySync
    <3> QED
      BY <2>5, <3>1, <3>2, <3>3, <3>4, <3>5 DEF Ingest
  <2>6. CASE UNCHANGED knowledgeVars
    BY <2>6, StutterSync
  <2> QED
    BY <2>1, <2>2, <2>3, <2>4, <2>5, <2>6 DEF Next
<1> QED
  BY <1>1, <1>2 DEF SyncInv, SyncKept

(* What is placed of the present versions shows in the collection.         *)
LEMMA InStepShows == SyncInv => ReloadTakesEffect
<1> SUFFICES ASSUME SyncInv, synced PROVE ReloadTakesEffect
  BY DEF ReloadTakesEffect
<1>1. TypeOK
  BY DEF SyncInv, KInv
<1>2. PICK all : IngestsCurrent(all) /\ \A i \in 1 .. Len(all) : Placed(all[i], i)
  BY DEF SyncInv, AllStored
<1>3. PICK off : Joined(all, Parts(Current), off)
  BY <1>2 DEF IngestsCurrent
<1>4. ASSUME NEW d \in Docs, NEW i \in DOMAIN ChunksOf(d, disk[d])
      PROVE  ChunksOf(d, disk[d])[i] \in Stored
  <2>1. PICK n \in DOMAIN Files : Files[n] = d
    BY KnowledgeAssumption
  <2>2. n \in 1 .. Len(Files) /\ Len(Files) \in Nat
    BY <1>1, <2>1, SyncTypes
  <2>3. Len(Parts(Current)) = Len(Files) /\ Parts(Current)[n] = ChunksOf(d, disk[d])
    BY <2>1, <2>2 DEF Parts, Current
  <2>4. ChunksOf(d, disk[d]) \in Seq(Chunk)
    BY <1>1, ChunksOfVersion DEF TypeOK
  <2> DEFINE part == ChunksOf(d, disk[d])
  <2> HIDE DEF part
  <2>5. i \in 1 .. Len(part) /\ Len(part) \in Nat
    BY <2>4 DEF part
  <2>6. /\ off[n] = off[n - 1] + Len(part) /\ off[n] <= Len(all)
        /\ all[off[n - 1] + i] = part[i]
        /\ off[n - 1] \in Nat
    <3>1. /\ off \in [0 .. Len(Files) -> Nat]
          /\ \A m \in 1 .. Len(Files) :
               /\ off[m] = off[m - 1] + Len(Parts(Current)[m]) /\ off[m] <= Len(all)
               /\ \A l \in 1 .. Len(Parts(Current)[m]) : all[off[m - 1] + l] = Parts(Current)[m][l]
      BY <1>3, <2>3 DEF Joined
    <3>2. n - 1 \in 0 .. Len(Files)
      BY <2>2
    <3>3. off[n - 1] \in Nat
      BY <3>1, <3>2
    <3> QED
      BY <2>2, <2>3, <2>5, <3>1, <3>3 DEF part
  <2>7. off[n - 1] + i \in 1 .. Len(all)
    <3>1. Len(all) \in Nat
      BY <1>2 DEF IngestsCurrent
    <3> QED
      BY <2>5, <2>6, <3>1
  <2>8. all[off[n - 1] + i] \in Stored
    BY <1>2, <2>7 DEF Placed, Stored
  <2> QED
    BY <2>6, <2>8 DEF part
<1> QED
  BY <1>4 DEF ReloadTakesEffect, SyncInv, PersonasCurrent

(* Once an ingestion has run to its end beside no outdated pipeline, the   *)
(* collection holds every section of every file and the registry every     *)
(* persona as they are on disk, until the next edit.                       *)
THEOREM ReloadAlwaysTakesEffect == Spec => []ReloadTakesEffect
<1>1. Init => SyncInv
  BY InitSyncInv
<1>2. SyncInv /\ [Next]_knowledgeVars => SyncInv'
  BY NextSyncInv
<1>3. SyncInv => ReloadTakesEffect
  BY InStepShows
<1> QED
  BY <1>1, <1>2, <1>3, PTL DEF Spec

(***************************************************************************)
(* Hints                                                                   *)
(***************************************************************************)

(* What the vector search found are chunks of its type that some version   *)
(* of their file had.                                                      *)
FoundSound ==
  \A c \in search.found : FromVersion(c) /\ DocType[c.doc] = search.type

(* While a hint is searched the quest's progress is that it was asked for. *)
ReachKept ==
  search.pc = "vector" /\ search.caller \in Quests =>
    search.reach = Reach(tracker[search.caller])

NoAnswerYet == search.pc = "vector" => answer = {}

(* An index was built from a collection, and a collection stays.           *)
IndexFromCollection == DOMAIN collection = {} => index = {}

HInv ==
  /\ KInv
  /\ HintsTypeOK
  /\ FoundSound
  /\ ReachKept
  /\ NoAnswerYet
  /\ IndexFromCollection

-----------------------------------------------------------------------------
(* Operators of the tracker and of the search. *)

(* Every report leaves an entry a tracker can have.                        *)
LEMMA UpdateProgressType ==
  ASSUME NEW e \in Entry, NEW p \in Int
  PROVE  UpdateProgress(e, p) \in Entry
BY DEF UpdateProgress, Entry, Completed, Clamped

LEMMA FixedEntries == NotStarted \in Entry /\ Started \in Entry /\ Completed \in Entry
BY DEF Entry, NotStarted, Started, Completed

LEMMA ReachType == ASSUME NEW e \in Entry PROVE Reach(e) \in Nat
<1>1. e.status \in {"not_started", "active", "completed"}
  BY DEF Entry, NotStarted, Completed
<1>2. HintLevel(e) \in {"ambient", "low", "medium", "high", "full"}
  BY <1>1 DEF HintLevel
<1> QED
  BY <1>2 DEF Reach, MaxStage

LEMMA NearestIsStored ==
  ASSUME NEW type, NEW limit, NEW found \in Nearest(type, limit), NEW c \in found
  PROVE  c \in Stored /\ DocType[c.doc] = type
<1> DEFINE ids == {id \in DOMAIN collection : DocType[collection[id].doc] = type}
<1>1. PICK S \in SUBSET ids : found = {collection[id] : id \in S}
  BY DEF Nearest
<1> QED
  BY <1>1 DEF Stored

(* The index a search ends with holds the type's stored chunks at most.    *)
LEMMA BuiltIndexSound ==
  ASSUME IndexFromCollection, NEW type
  PROVE  BuiltIndex(type) \subseteq OfType(Stored, type)
<1>1. CASE collection = << >>
  <2>1. DOMAIN collection = {}
    BY <1>1
  <2> QED
    BY <1>1, <2>1 DEF BuiltIndex, IndexFromCollection
<1>2. CASE collection # << >>
  BY <1>2 DEF BuiltIndex
<1> QED
  BY <1>1, <1>2

-----------------------------------------------------------------------------
LEMMA InitHInv == HintsInit => HInv
<1> SUFFICES ASSUME HintsInit PROVE HInv
  OBVIOUS
<1>1. KInv
  BY InitKInv DEF HintsInit
<1>2. tracker \in [Quests -> Entry]
  BY FixedEntries DEF HintsInit
<1>3. HintsTypeOK
  BY <1>2 DEF HintsInit, HintsTypeOK, NoSearch
<1> QED
  BY <1>1, <1>3 DEF HInv, HintsInit, NoSearch, FoundSound, ReachKept, NoAnswerYet,
                    IndexFromCollection

(* The searches and the tracker leave the knowledge base alone.            *)
LEMMA KnowledgeStep == [HintsNext]_vars => [Next]_knowledgeVars
BY DEF HintsNext, vars, Next, StartQuest, CompleteQuest, ReportProgress, AskHint, Ask,
       VectorSearch, FinishSearch, SearchFails, LoseProcess

(* A collection that is not empty stays so.                                *)
LEMMA CollectionStays ==
  ASSUME [Next]_knowledgeVars, DOMAIN collection' = {}
  PROVE  DOMAIN collection = {}
<1>1. CASE \E j \in Pipelines : StoreBatch(j)
  BY <1>1 DEF StoreBatch, Upsert
<1>2. CASE collection' = collection
  BY <1>2
<1> QED
  BY <1>1, <1>2 DEF Next, knowledgeVars, Edit, Crash, Boot, RequestReload, Ingest, ReadFile,
                    IngestionFails, LoadPersonas, SetRegistry

(* Steps that leave the searches and the tracker as they are.              *)
LEMMA UnseenStep ==
  ASSUME HInv, [Next]_knowledgeVars, UNCHANGED hintVars
  PROVE  HInv'
<1> USE DEF HInv
<1>1. KInv'
  BY NextKInv
<1>2. \A c \in search.found : c \in Chunk
  BY DEF HintsTypeOK
<1>3. FoundSound'
  BY <1>2, VersionsKept DEF FoundSound, hintVars
<1>4. HintsTypeOK' /\ ReachKept' /\ NoAnswerYet'
  BY DEF HintsTypeOK, ReachKept, NoAnswerYet, hintVars
<1>5. IndexFromCollection'
  BY CollectionStays DEF IndexFromCollection, hintVars
<1> QED
  BY <1>1, <1>3, <1>4, <1>5

LEMMA TrackerStep ==
  ASSUME HInv, NEW q \in Quests,
         \/ StartQuest(q) \/ CompleteQuest(q)
         \/ \E p \in Reports : ReportProgress(q, p)
  PROVE  HInv'
<1> USE DEF HInv
<1>1. /\ UNCHANGED knowledgeVars /\ search.pc = "idle"
      /\ UNCHANGED <<index, search, answer>>
  BY DEF StartQuest, CompleteQuest, ReportProgress
<1>2. KInv'
  BY <1>1, NextKInv
<1>3. tracker' \in [Quests -> Entry]
  <2>1. tracker \in [Quests -> Entry] /\ Reports \subseteq Int
    BY HintsAssumption DEF HintsTypeOK
  <2> QED
    BY <2>1, FixedEntries, UpdateProgressType DEF StartQuest, CompleteQuest, ReportProgress
<1>4. HintsTypeOK'
  BY <1>1, <1>3 DEF HintsTypeOK
<1>5. FoundSound'
  BY <1>1 DEF FoundSound, knowledgeVars, FromVersion, ChunksOf, Stage
<1>6. ReachKept' /\ NoAnswerYet' /\ IndexFromCollection'
  BY <1>1 DEF ReachKept, NoAnswerYet, IndexFromCollection, knowledgeVars
<1> QED
  BY <1>2, <1>4, <1>5, <1>6

LEMMA VectorSearchStep ==
  ASSUME HInv, NEW caller \in Quests \cup {Conversation},
         NEW type \in SearchTypes \cup {"quest"}, NEW reach \in Nat,
         caller \in Quests => reach = Reach(tracker[caller]),
         VectorSearch(caller, type, reach)
  PROVE  HInv'
<1> USE DEF HInv
<1>1. UNCHANGED knowledgeVars /\ UNCHANGED <<tracker, index>> /\ answer' = {}
  BY DEF VectorSearch
<1>2. KInv'
  BY <1>1, NextKInv
<1>3. PICK found \in Nearest(type, 3 * Limit(caller)) :
        search' = [pc |-> "vector", caller |-> caller, type |-> type, reach |-> reach,
                   found |-> found]
  BY DEF VectorSearch
<1>4. \A c \in found : c \in Stored /\ DocType[c.doc] = type
  BY <1>3, NearestIsStored
<1>5. found \subseteq Chunk
  BY <1>4 DEF KInv, TypeOK
<1>6. HintsTypeOK'
  BY <1>1, <1>3, <1>5 DEF HintsTypeOK
<1>7. \A c \in found : FromVersion(c)
  BY <1>4 DEF KInv, Provenance
<1>8. FoundSound'
  BY <1>1, <1>3, <1>4, <1>7 DEF FoundSound, knowledgeVars, FromVersion, ChunksOf, Stage
<1>9. ReachKept' /\ NoAnswerYet' /\ IndexFromCollection'
  BY <1>1, <1>3 DEF ReachKept, NoAnswerYet, IndexFromCollection, knowledgeVars
<1> QED
  BY <1>2, <1>6, <1>8, <1>9

(* What a finished search returns.                                         *)
LEMMA Returned ==
  ASSUME HInv, FinishSearch
  PROVE  /\ \A c \in answer' : /\ c \in search.found \cup Stored
                               /\ DocType[c.doc] = search.type
                               /\ \A d \in answer' : Lead[c.text] = Lead[d.text] => c = d
         /\ search.caller \in Quests =>
              \A c \in answer' : c.doc \in About[search.caller] /\ c.stage <= search.reach
<1>1. index' = BuiltIndex(search.type)
  BY DEF FinishSearch
<1>2. \A c \in index' : c \in Stored /\ DocType[c.doc] = search.type
  BY <1>1, BuiltIndexSound DEF HInv, OfType
<1>3. \A c \in search.found : DocType[c.doc] = search.type
  BY DEF HInv, FoundSound
<1>4. PICK R \in Merged(search.found, index', Limit(search.caller)) :
        IF search.caller = Conversation THEN answer' = R
        ELSE answer' \in HintsAmong(R, search.caller, search.reach)
  BY DEF FinishSearch
<1>5. answer' \subseteq R
  BY <1>4 DEF HintsAmong
<1>6. R \subseteq search.found \cup index' /\ \A c, d \in R : Lead[c.text] = Lead[d.text] => c = d
  BY <1>4 DEF Merged
<1>7. search.caller \in Quests =>
        \A c \in answer' : c.doc \in About[search.caller] /\ c.stage <= search.reach
  BY <1>4, HintsAssumption DEF HintsAmong
<1> QED
  BY <1>2, <1>3, <1>5, <1>6, <1>7

LEMMA SearchEndStep ==
  ASSUME HInv, FinishSearch \/ SearchFails
  PROVE  HInv'
<1> USE DEF HInv
<1>1. UNCHANGED knowledgeVars /\ tracker' = tracker /\ search' = NoSearch
  BY DEF FinishSearch, SearchFails
<1>2. KInv'
  BY <1>1, NextKInv
<1>3. index' \subseteq Chunk /\ (DOMAIN collection = {} => index' = {})
  <2>1. CASE FinishSearch
    <3>1. index' \subseteq Stored
      BY <2>1, BuiltIndexSound DEF FinishSearch, OfType
    <3> QED
      BY <3>1 DEF KInv, TypeOK, Stored
  <2>2. CASE SearchFails
    BY <2>2 DEF SearchFails, HintsTypeOK, IndexFromCollection
  <2> QED
    BY <2>1, <2>2
<1>4. answer' \subseteq Chunk
  <2>1. CASE FinishSearch
    <3>1. answer' \subseteq search.found \cup Stored
      BY <2>1, Returned
    <3> QED
      BY <3>1 DEF HintsTypeOK, KInv, TypeOK
  <2>2. CASE SearchFails
    BY <2>2 DEF SearchFails, HintsTypeOK
  <2> QED
    BY <2>1, <2>2
<1>5. HintsTypeOK'
  BY <1>1, <1>3, <1>4 DEF HintsTypeOK, NoSearch
<1>6. FoundSound' /\ ReachKept' /\ NoAnswerYet'
  BY <1>1 DEF NoSearch, FoundSound, ReachKept, NoAnswerYet
<1>7. IndexFromCollection'
  BY <1>1, <1>3 DEF IndexFromCollection, knowledgeVars
<1> QED
  BY <1>2, <1>5, <1>6, <1>7

LEMMA LoseProcessStep == ASSUME HInv, LoseProcess PROVE HInv'
<1>1. KInv'
  BY NextKInv DEF HInv, LoseProcess, Next
<1>2. HintsTypeOK'
  BY FixedEntries DEF LoseProcess, HintsTypeOK, NoSearch
<1> QED
  BY <1>1, <1>2 DEF HInv, LoseProcess, NoSearch, FoundSound, ReachKept, NoAnswerYet,
                    IndexFromCollection

LEMMA NextHInv == HInv /\ [HintsNext]_vars => HInv'
<1> SUFFICES ASSUME HInv, [HintsNext]_vars PROVE HInv'
  OBVIOUS
<1>1. [Next]_knowledgeVars
  BY KnowledgeStep
<1>2. CASE UNCHANGED hintVars
  BY <1>1, <1>2, UnseenStep
<1>3. CASE LoseProcess
  BY <1>3, LoseProcessStep
<1>4. ASSUME NEW q \in Quests, StartQuest(q) \/ CompleteQuest(q) PROVE HInv'
  BY <1>4, TrackerStep
<1>5. ASSUME NEW q \in Quests, AskHint(q) PROVE HInv'
  <2>1. Reach(tracker[q]) \in Nat
    BY ReachType DEF HInv, HintsTypeOK
  <2> QED
    BY <1>5, <2>1, VectorSearchStep DEF AskHint
<1>6. ASSUME NEW q \in Quests, NEW p \in Reports, ReportProgress(q, p) PROVE HInv'
  BY <1>6, TrackerStep
<1>7. ASSUME NEW t \in SearchTypes, Ask(t) PROVE HInv'
  BY <1>7, HintsAssumption, VectorSearchStep DEF Ask
<1>8. CASE FinishSearch \/ SearchFails
  BY <1>8, SearchEndStep
<1> QED
  BY <1>2, <1>3, <1>4, <1>5, <1>6, <1>7, <1>8 DEF HintsNext, vars

-----------------------------------------------------------------------------
THEOREM HintsInvariant == HintsSpec => []HInv
<1>1. HintsInit => HInv
  BY InitHInv
<1>2. HInv /\ [HintsNext]_vars => HInv'
  BY NextHInv
<1> QED
  BY <1>1, <1>2, PTL DEF HintsSpec

(* Searches and the tracker never disturb ingestion: the composition       *)
(* implements Knowledge on its own, so what holds of that holds of both.   *)
THEOREM ImplementsKnowledge == HintsSpec => Spec
<1>1. HintsInit => Init
  BY DEF HintsInit
<1> QED
  BY <1>1, KnowledgeStep, PTL DEF HintsSpec, Spec

(* Every reachable state of tracker, index and search is well typed: a     *)
(* quest below 100 is the only one in progress.                            *)
THEOREM HintsTypeCorrect == HintsSpec => []HintsTypeOK
<1>1. HInv => HintsTypeOK
  BY DEF HInv
<1> QED
  BY <1>1, HintsInvariant, PTL

(* Only two steps end a search while the server is up, and one of them     *)
(* leaves the answer empty.                                                *)
LEMMA AnsweredStep ==
  ASSUME HInv, [HintsNext]_vars, Answered
  PROVE  FinishSearch \/ answer' = {}
<1>1. search.pc = "vector" /\ search'.pc = "idle" /\ server' = "up"
  BY DEF Answered
<1>2. search' # search /\ ~LoseProcess
  BY <1>1 DEF LoseProcess, Crash
<1> QED
  BY <1>1, <1>2 DEF HInv, NoAnswerYet, HintsNext, vars, hintVars, StartQuest, CompleteQuest,
       ReportProgress, AskHint, Ask, VectorSearch, SearchFails

(* For any files, versions, batch size and limits: what a search returns   *)
(* is of its type, was stored while it ran and is returned once.           *)
THEOREM AnswersAlwaysCurrent == HintsSpec => AnswersAreCurrent
<1>1. HInv /\ [HintsNext]_vars =>
        [Answered => \A c \in answer' :
           /\ DocType[c.doc] = search.type
           /\ c \in search.found \cup Stored
           /\ \A d \in answer' : Lead[c.text] = Lead[d.text] => c = d]_vars
  BY AnsweredStep, Returned
<1> QED
  BY <1>1, HintsInvariant, PTL DEF HintsSpec, AnswersAreCurrent

(* For any files, versions and progress: a hint is a section of the quest  *)
(* as some version had it, at a stage the player has reached.              *)
THEOREM HintsAlwaysReached == HintsSpec => HintsAreReached
<1>1. ASSUME HInv, FinishSearch, search.caller \in Quests
      PROVE  \A c \in answer' : /\ c.doc \in About[search.caller]
                                /\ c.stage <= Reach(tracker[search.caller])
                                /\ FromVersion(c)
  <2>1. search.reach = Reach(tracker[search.caller])
    BY <1>1 DEF HInv, ReachKept, FinishSearch
  <2>2. \A c \in search.found \cup Stored : FromVersion(c)
    BY <1>1 DEF HInv, FoundSound, KInv, Provenance
  <2> QED
    BY <1>1, <2>1, <2>2, Returned
<1>2. HInv /\ [HintsNext]_vars =>
        [Answered /\ search.caller \in Quests => \A c \in answer' :
           /\ c.doc \in About[search.caller]
           /\ c.stage <= Reach(tracker[search.caller])
           /\ \E v \in 1 .. disk[c.doc] : \E i \in DOMAIN ChunksOf(c.doc, v) :
                ChunksOf(c.doc, v)[i] = c]_vars
  BY <1>1, AnsweredStep DEF FromVersion
<1> QED
  BY <1>2, HintsInvariant, PTL DEF HintsSpec, HintsAreReached
=============================================================================
