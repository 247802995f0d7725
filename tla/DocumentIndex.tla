---------------------------- MODULE DocumentIndex ----------------------------
(***************************************************************************)
(* The owner's private documents and their index: the indexer that the      *)
(* command line starts (rag/documents.py) and the reader in Friday's web    *)
(* service (rag/knowledge.py).  They share three files, index.faiss,        *)
(* chunks.json and manifest.json, which are rewritten in place; documents   *)
(* change while they are hashed and read; the indexer may die anywhere.     *)
(*                                                                          *)
(* A document's content is its version, and its hash is the version's: an   *)
(* edit writes a new one, or puts back one that was written before.  A      *)
(* chunk is the window of words it holds.  A vector is the chunk it was     *)
(* computed from.                                                           *)
(***************************************************************************)
EXTENDS Integers, Sequences, FiniteSets, SequencesExt

CONSTANTS
  Documents,      \* the supported files of the documents folder
  MaxWrites,      \* bound: times that a document is written
  MaxDeaths,      \* bound: deaths of the indexer, answers of the reader
  ChunkSize, Overlap, TopK

ASSUME DIAssumption == /\ MaxWrites \in Nat /\ MaxDeaths \in Nat /\ TopK \in Nat \ {0}
                       /\ Overlap \in Nat /\ ChunkSize \in Nat /\ Overlap < ChunkSize

VARIABLES
  document,    \* the documents folder: each file's version, 0 when it is not there
  newest,      \* the newest version
  writes,      \* times that a document was written
  misread,     \* documents an indexer ever read in another version than it had hashed
  restored,    \* those of them that were then given a version that had been written before
  disk,        \* the three files
  indexer,     \* the indexer's place and what it holds in memory
  knowledge,   \* the reader's place and what it read so far
  interrupted, \* an indexer died while it saved, and none has saved all three files since
  faults       \* deaths of the indexer, answers of the reader

diVars == <<document, newest, writes, misread, restored, disk, indexer, knowledge, interrupted, faults>>

Nothing     == [d \in Documents |-> 0]
Missing     == [state |-> "missing", body |-> << >>]
Torn        == [state |-> "torn", body |-> << >>]
Whole(body) == [state |-> "whole", body |-> body]
There       == {d \in Documents : document[d] # 0}

\* What a version's page holds as text, and what OCR reads from its picture, in words: some
\* have text, some are scans, some are empty.  A page with little text is read by OCR, and
\* the longer of the two is taken.
NativeText(v) == IF v % 3 = 1 THEN ChunkSize + 1 ELSE 0
OcrText(v)    == IF v % 3 = 2 THEN ChunkSize ELSE 0
NeedsOcr(v)   == NativeText(v) < ChunkSize
Words(v)      == IF NeedsOcr(v) /\ OcrText(v) > NativeText(v) THEN OcrText(v) ELSE NativeText(v)

\* chunk_text: windows of ChunkSize words, each Overlap words into the one before, until one
\* reaches the last word.
Windows(words) ==
  LET Start(k) == (k - 1) * (ChunkSize - Overlap) + 1
      LastWord(k)  == IF Start(k) + ChunkSize - 1 < words THEN Start(k) + ChunkSize - 1 ELSE words
      count    == CHOOSE k \in 0..words : /\ words > 0 => k > 0 /\ LastWord(k) = words
                                          /\ \A j \in 1..(k - 1) : LastWord(j) # words
  IN [k \in 1..count |-> <<Start(k), LastWord(k)>>]

ChunksOf(d, v) == LET w == Windows(Words(v))
                  IN [k \in DOMAIN w |-> [source |-> d, version |-> v, words |-> w[k]]]

Down == [at |-> "down", todo |-> {}, manifest |-> Nothing, hashed |-> Nothing,
         chunks |-> << >>, index |-> << >>, step |-> 0, by |-> "start"]
IdleKnowledge == [at |-> "idle", selected |-> {}, manifest |-> Nothing, chunks |-> << >>,
                  index |-> << >>, evidence |-> << >>]

DIInit ==
  /\ document = Nothing /\ newest = 0 /\ writes = 0 /\ misread = {} /\ restored = {}
  /\ faults = 0 /\ interrupted = FALSE
  /\ disk = [index |-> Missing, chunks |-> Missing, manifest |-> Missing]
  /\ indexer = Down /\ knowledge = IdleKnowledge

Indexing(place) == indexer.at = place
Moves(i)        == indexer' = i /\ UNCHANGED <<document, newest, writes, restored, disk, knowledge, interrupted, faults>>
Keeps(i)        == Moves(i) /\ UNCHANGED misread
-----------------------------------------------------------------------------
\* The owner writes a document, in a new content or in one that was there before (an undo, a
\* checkout, a copy), or deletes it.
EditDocument ==
  /\ \E d \in Documents :
       \/ /\ writes < MaxWrites /\ writes' = writes + 1
          /\ \/ newest' = newest + 1 /\ document' = [document EXCEPT ![d] = newest + 1]
                /\ UNCHANGED restored
             \/ /\ \E v \in 1..newest : v # document[d] /\ document' = [document EXCEPT ![d] = v]
                /\ restored' = restored \cup ({d} \cap misread) /\ UNCHANGED newest
       \/ /\ document[d] # 0 /\ document' = [document EXCEPT ![d] = 0]
          /\ UNCHANGED <<newest, writes, restored>>
  /\ UNCHANGED <<misread, disk, indexer, knowledge, interrupted, faults>>

\* index_needs_rebuild: a missing file, or the manifest (an unreadable one is empty) is read
\* and the documents are listed and hashed one after the other.
StartIndexer ==
  /\ Indexing("down")
  /\ LET whole    == \A f \in DOMAIN disk : disk[f].state # "missing"
         recorded == IF disk.manifest.state = "whole" THEN disk.manifest.body ELSE Nothing
     IN Keeps(IF whole
              THEN [Down EXCEPT !.at = "compare", !.todo = There, !.manifest = recorded]
              ELSE [Down EXCEPT !.at = "scan", !.todo = There])

\* A file that is gone when it is its turn ends the process.
Next1(todo)   == CHOOSE d \in todo : TRUE
HashToCompare ==
  /\ Indexing("compare") /\ indexer.todo # {}
  /\ LET d == Next1(indexer.todo)
     IN Keeps(IF document[d] = 0 THEN Down
              ELSE [indexer EXCEPT !.todo = @ \ {d}, !.hashed[d] = document[d]])

\* The same names and the same hashes: the stored index is loaded; else all is built again.
DecideRebuild ==
  /\ Indexing("compare") /\ indexer.todo = {}
  /\ Keeps(IF indexer.hashed = indexer.manifest THEN [indexer EXCEPT !.at = "load"]
           ELSE [Down EXCEPT !.at = "scan", !.todo = There])

\* load_chunks raises on an unreadable file; load_index answers that it failed.
LoadIndex ==
  /\ Indexing("load")
  /\ Keeps(IF disk.chunks.state # "whole" \/ disk.index.state # "whole" THEN Down
           ELSE [indexer EXCEPT !.at = "ready", !.by = "reuse",
                                !.chunks = disk.chunks.body, !.index = disk.index.body])

\* build_document_chunks: each document is hashed,
HashDocument ==
  /\ Indexing("scan") /\ indexer.todo # {}
  /\ LET d == Next1(indexer.todo)
     IN Keeps(IF document[d] = 0 THEN Down
              ELSE [indexer EXCEPT !.at = "extract", !.hashed[d] = document[d]])

\* and then read again, page by page, and cut into chunks.
ExtractDocument ==
  /\ Indexing("extract")
  /\ LET d == Next1(indexer.todo)
     IN /\ Moves(IF document[d] = 0 THEN Down
                 ELSE [indexer EXCEPT !.at = "scan", !.todo = @ \ {d},
                                      !.chunks = @ \o ChunksOf(d, document[d])])
        /\ misread' = misread \cup (IF document[d] \in {0, indexer.hashed[d]} THEN {} ELSE {d})

\* A variant: the manifest is made when the index is saved.
EmbedChunksThenHash ==
  /\ Indexing("scan") /\ indexer.todo = {}
  /\ Keeps(IF indexer.chunks = << >> THEN Down
           ELSE [indexer EXCEPT !.manifest = document, !.at = "save", !.index = indexer.chunks])

\* No text: the command ends (a forced one goes on answering, from no chunks), the files stay.
\* Else the vectors are computed and the three files are saved.
EmbedChunks ==
  /\ Indexing("scan") /\ indexer.todo = {}
  /\ LET built == [indexer EXCEPT !.manifest = indexer.hashed]
     IN \/ indexer.chunks # << >> /\ Keeps([built EXCEPT !.at = "save", !.index = indexer.chunks])
        \/ /\ indexer.chunks = << >>
           /\ Keeps(IF indexer.by = "force" THEN [built EXCEPT !.at = "ready"] ELSE Down)

\* The saves, in their order, each of them open to a reader, and to a death, half-way.
SaveOrder == <<"index", "chunks", "manifest">>
SaveFiles ==
  /\ Indexing("save")
  /\ LET file == SaveOrder[(indexer.step \div 2) + 1]
         last == indexer.step = 5
     IN /\ disk' = [disk EXCEPT ![file] =
                      IF indexer.step % 2 = 0 THEN Torn
                      ELSE Whole(CASE file = "index" -> indexer.index
                                   [] file = "chunks" -> indexer.chunks
                                   [] file = "manifest" -> indexer.manifest)]
        /\ indexer' = IF last THEN [indexer EXCEPT !.at = "ready", !.step = 0, !.by = "build"]
                      ELSE [indexer EXCEPT !.step = @ + 1]
        /\ interrupted' = (interrupted /\ ~last)
  /\ UNCHANGED <<document, newest, writes, misread, restored, knowledge, faults>>

\* force_reindex scans without asking whether anything changed.
ForceReindex ==
  /\ Indexing("ready")
  /\ Keeps([indexer EXCEPT !.at = "scan", !.todo = There, !.by = "force",
                                !.chunks = << >>, !.hashed = Nothing])

\* The owner leaves, or the process dies.
IndexerEnds ==
  /\ ~Indexing("down") /\ faults < MaxDeaths /\ faults' = faults + 1 /\ indexer' = Down
  /\ interrupted' = (interrupted \/ indexer.step > 0)
  /\ UNCHANGED <<document, newest, writes, misread, restored, disk, knowledge>>
-----------------------------------------------------------------------------
\* The reader.
Reading(place) == knowledge.at = place
Learns(k)      == knowledge' = k /\ UNCHANGED <<document, newest, writes, misread, restored, disk, indexer, interrupted, faults>>
Names(chunks)  == {chunks[i].source : i \in DOMAIN chunks}

\* _read_inventory: the manifest,
AskKnowledge ==
  /\ Reading("idle") /\ disk.manifest.state = "whole"
  /\ \E sources \in SUBSET {d \in Documents : disk.manifest.body[d] # 0} :
       /\ sources # {}
       /\ Learns([IdleKnowledge EXCEPT !.at = "chunks", !.selected = sources,
                                       !.manifest = disk.manifest.body])

\* and the chunks, whose names the manifest must know.
ReadChunks ==
  /\ Reading("chunks")
  /\ Learns(IF /\ disk.chunks.state = "whole"
               /\ \A d \in Names(disk.chunks.body) : knowledge.manifest[d] # 0
            THEN [knowledge EXCEPT !.at = "again", !.chunks = disk.chunks.body] ELSE IdleKnowledge)

\* The chunks are read again: as many as before,
ReloadChunks ==
  /\ Reading("again")
  /\ Learns(IF disk.chunks.state = "whole" /\ Len(disk.chunks.body) = Len(knowledge.chunks)
            THEN [knowledge EXCEPT !.at = "index", !.chunks = disk.chunks.body] ELSE IdleKnowledge)

\* and as many as the index has vectors.
ReadIndex ==
  /\ Reading("index")
  /\ Learns(IF disk.index.state = "whole" /\ Len(disk.index.body) = Len(knowledge.chunks)
            THEN [knowledge EXCEPT !.at = "retrieve", !.index = disk.index.body] ELSE IdleKnowledge)

\* The positions of the chunks of the selected documents, in their order.
Eligible(chunks, selected) ==
  SetToSortSeq({i \in DOMAIN chunks : chunks[i].source \in selected}, <)

\* The searches rank an index made of those alone; a hit is a place in it, and stands for the
\* chunk at that position.
Hits(chunks, selected) ==
  LET eligible == Eligible(chunks, selected)
      k        == IF TopK < Len(eligible) THEN TopK ELSE Len(eligible)
  IN {{chunks[eligible[h]] : h \in hits} : hits \in {s \in SUBSET DOMAIN eligible : Cardinality(s) = k}}

\* retrieve unites both rankings and keeps the best; ask keeps those that share a word with
\* the question as evidence.
Retrieve ==
  /\ Reading("retrieve") /\ faults < MaxDeaths /\ faults' = faults + 1
  /\ \E byVector, byWord \in Hits(knowledge.chunks, knowledge.selected) :
       \E best \in SUBSET (byVector \cup byWord) :
         /\ Cardinality(best) <= TopK
         /\ knowledge' = [knowledge EXCEPT !.at = "answered", !.evidence = SetToSeq(best)]
  /\ UNCHANGED <<document, newest, writes, misread, restored, disk, indexer, interrupted>>

Answer == Reading("answered") /\ Learns(IdleKnowledge)

DINext ==
  \/ EditDocument \/ StartIndexer \/ HashToCompare \/ DecideRebuild \/ LoadIndex \/ HashDocument
  \/ ExtractDocument \/ EmbedChunks \/ SaveFiles \/ ForceReindex \/ IndexerEnds
  \/ AskKnowledge \/ ReadChunks \/ ReloadChunks \/ ReadIndex \/ Retrieve \/ Answer

DISpec == DIInit /\ [][DINext]_diVars
-----------------------------------------------------------------------------
\* Every variable keeps its type.
DITypeOK ==
  /\ document \in [Documents -> 0..newest] /\ newest \in 0..writes /\ writes \in 0..MaxWrites
  /\ restored \subseteq misread /\ misread \subseteq Documents
  /\ faults \in 0..MaxDeaths /\ indexer.step \in 0..5
  /\ \A f \in DOMAIN disk : disk[f].state \in {"missing", "torn", "whole"}

\* documents.py 987-1030: an index that is loaded because nothing changed is the index of the
\* documents that were just hashed: every word of each, nothing of any other document or
\* version, and vector i is of chunk i; whatever changed between the hashing and the reading
\* of a document, and wherever an earlier indexer died, unless it died while it saved.  The
\* hashes cannot tell a document that was read in another version than it was hashed in and
\* then put back: of such a document, and of no other, the index may hold another text.
ReusedIndexIsCurrent ==
  Indexing("ready") /\ indexer.by = "reuse" /\ ~interrupted =>
    /\ indexer.index = indexer.chunks
    /\ \A i \in DOMAIN indexer.chunks :
         \/ indexer.chunks[i].version = indexer.hashed[indexer.chunks[i].source]
         \/ indexer.chunks[i].source \in restored
    /\ \A d \in Documents \ restored : \A w \in 1..Words(indexer.hashed[d]) :
         \E i \in DOMAIN indexer.chunks :
           /\ indexer.chunks[i].source = d
           /\ w \in indexer.chunks[i].words[1]..indexer.chunks[i].words[2]

\* documents.py 1139: an answer rests on chunks of the documents the owner selected, though
\* the chunks may have been replaced since the selection was checked.
EvidenceIsOfTheSelected ==
  \A i \in DOMAIN knowledge.evidence : knowledge.evidence[i].source \in knowledge.selected
=============================================================================
