------------------------------ MODULE CodeIndex ------------------------------
(***************************************************************************)
(* The index of a repository's symbols (code_index/symbol_index.py) and the *)
(* line chunks it falls back on (code_index/repository.py): the refresh     *)
(* that embeds only what changed, the generation of files it leaves on disk *)
(* under a manifest, and the commands that load them.                       *)
(*                                                                          *)
(* A file's content is what the index sees of it: the names it defines and  *)
(* the names it calls.  A symbol is its file, its name and the content it   *)
(* was extracted from; its vector is the symbol it was computed from.       *)
(***************************************************************************)
EXTENDS Integers, Sequences, FiniteSets, SequencesExt

CONSTANTS
  Files,            \* the source files of the repository
  SymbolNames,      \* the names they define and call
  MaxEdits,         \* bound: changes of the files and of the parser
  MaxRefreshDeaths  \* bound: deaths while refreshing

ASSUME CIAssumption == /\ MaxEdits \in Nat /\ MaxRefreshDeaths \in Nat
                       /\ IsFiniteSet(Files) /\ IsFiniteSet(SymbolNames)

VARIABLES
  tree,      \* the repository: each file's content
  parser,    \* the version of the language's parser, 0 when it cannot be loaded
  artifact,  \* the files of the index: symbols, graph, embeddings, faiss
  metadata,  \* the manifest: records of the files and what the artifacts must be
  lines,     \* the line index and its chunks
  refresh,   \* the process that refreshes: its place and its memory
  edits, deaths

ciVars == <<tree, parser, artifact, metadata, lines, refresh, edits, deaths>>

Contents  == [defines : SUBSET SymbolNames, calls : SUBSET SymbolNames]
NoFile    == [defines |-> {}, calls |-> {"no file"}]
NoRecord  == [content |-> NoFile, parser |-> 0]
Unindexed == [f \in Files |-> NoRecord]
Absent    == [symbols |-> << >>, graph |-> {}, embeddings |-> << >>, faiss |-> << >>]
Existing  == {f \in Files : tree[f] # NoFile}

\* What is in memory after _clear_memory.
Cleared   == [at |-> "down", full |-> FALSE, hashes |-> [f \in Files |-> NoFile],
              files |-> Unindexed, symbols |-> << >>, embeddings |-> << >>, calls |-> {},
              faiss |-> << >>, chunks |-> << >>, index |-> << >>, step |-> 0]

\* Extraction: a symbol for each name, a call for each name called; its target is the file's
\* own definition of that name, else not known.
Unresolved == << >>
SymbolsOf(f, c) == {[file |-> f, name |-> n, content |-> c] : n \in c.defines}
CallsOf(f, c)   ==
  {[file |-> f, name |-> n,
    callee |-> IF n \in c.defines THEN <<f, n>> ELSE Unresolved] : n \in c.calls}

Unwritten   == [state |-> "missing", body |-> << >>]
TornFile        == [state |-> "torn", body |-> << >>]
WholeFile(body) == [state |-> "whole", body |-> body]

CIInit ==
  /\ tree \in [Files -> {NoFile} \cup Contents] /\ parser = 1
  /\ artifact = Absent /\ metadata = [state |-> "missing", files |-> Unindexed, hashes |-> Absent]
  /\ lines = [index |-> Unwritten, chunks |-> Unwritten]
  /\ refresh = Cleared /\ edits = 0 /\ deaths = 0

RefreshAt(place) == refresh.at = place
Goes(r)   == refresh' = r /\ UNCHANGED <<tree, parser, artifact, metadata, lines, edits, deaths>>
-----------------------------------------------------------------------------
\* A file is written or deleted, a grammar is installed, replaced or lost.
TreeChanges ==
  /\ edits < MaxEdits /\ edits' = edits + 1
  /\ \/ /\ \E f \in Files, c \in {NoFile} \cup Contents : c # tree[f] /\ tree' = [tree EXCEPT ![f] = c]
        /\ UNCHANGED parser
     \/ /\ RefreshAt("down") /\ \E v \in 0..2 : v # parser /\ parser' = v
        /\ UNCHANGED tree
  /\ UNCHANGED <<artifact, metadata, lines, refresh, deaths>>

\* reindex: the line chunks of every file, their vectors, and the two files in place.
Reindex(full) ==
  /\ RefreshAt("down")
  /\ LET chunks == SetToSeq({[file |-> f, content |-> tree[f]] : f \in Existing})
     IN chunks # << >> /\ Goes([Cleared EXCEPT !.at = "lines", !.full = full,
                                               !.chunks = chunks, !.index = chunks])

\* Both files are written in place, so that each can be found half-written.
SaveLineIndex ==
  /\ RefreshAt("lines")
  /\ lines' = CASE refresh.step = 0 -> [lines EXCEPT !.index = TornFile]
                [] refresh.step = 1 -> [lines EXCEPT !.index = WholeFile(refresh.index)]
                [] refresh.step = 2 -> [lines EXCEPT !.chunks = TornFile]
                [] refresh.step = 3 -> [lines EXCEPT !.chunks = WholeFile(refresh.chunks)]
  /\ refresh' = IF refresh.step < 3 THEN [refresh EXCEPT !.step = @ + 1]
                ELSE [refresh EXCEPT !.step = 0, !.at = "hash"]
  /\ UNCHANGED <<tree, parser, artifact, metadata, edits, deaths>>

\* --refresh begins with the symbols.
RefreshSymbols == RefreshAt("down") /\ Goes([Cleared EXCEPT !.at = "hash"])

\* The files are listed and hashed; an incremental refresh loads what is stored, and ends when
\* that is corrupt.
Loads(m, a) == m.state = "whole" /\ m.hashes = a /\ Len(a.symbols) = Len(a.embeddings)
LoadStored ==
  /\ RefreshAt("hash")
  /\ LET hashed == [refresh EXCEPT !.at = "extract", !.hashes = tree]
     IN Goes(IF refresh.full \/ metadata.state = "missing" THEN hashed
             ELSE IF Loads(metadata, artifact)
             THEN [hashed EXCEPT !.files = metadata.files, !.symbols = artifact.symbols,
                                 !.embeddings = artifact.embeddings, !.calls = artifact.graph]
             ELSE Cleared)

\* Deleted, and changed: a new or another content, another parser than the one that is there,
\* or everything.
Deleted    == {f \in Files : refresh.files[f] # NoRecord /\ refresh.hashes[f] = NoFile}
ParserDiffersOrIsGone(f) == refresh.files[f].parser # parser   \* a variant
ParserDiffers(f) == parser # 0 /\ refresh.files[f].parser # parser
Changed    == {f \in Files : /\ refresh.hashes[f] # NoFile
                             /\ \/ refresh.full \/ refresh.files[f] = NoRecord
                                \/ refresh.files[f].content # refresh.hashes[f]
                                \/ ParserDiffers(f)}
Replaced   == Deleted \cup Changed

\* A variant: as many vectors as symbols stay.
RetainedCount(symbols) == Cardinality({i \in DOMAIN symbols : symbols[i].file \notin Replaced})
FirstVectors == SubSeq(refresh.embeddings, 1, RetainedCount(refresh.symbols))

\* Numbers in their order.
Ascending(numbers) ==
  CHOOSE p \in [1..Cardinality(numbers) -> numbers] : \A i, j \in DOMAIN p : i < j => p[i] < p[j]

\* What stays of a list that is in step with the symbols: what is at the places of the symbols
\* of the files that are not replaced.
Retained(values) ==
  LET places == Ascending({i \in DOMAIN refresh.symbols : refresh.symbols[i].file \notin Replaced})
  IN [i \in DOMAIN places |-> values[places[i]]]
RetainedSymbols == Retained(refresh.symbols)
RetainedVectors == Retained(refresh.embeddings)

\* A file that is gone again, or that no parser can read, fails and is left out.
Extracted    == {f \in Changed : parser # 0 /\ tree[f] # NoFile}
NewSymbols   == SetToSeq(UNION {SymbolsOf(f, tree[f]) : f \in Extracted})

\* _resolve_graph_edges: a call whose target is not known gets the one symbol of that name.
Definitions(symbols, name) == {symbols[i] : i \in {j \in DOMAIN symbols : symbols[j].name = name}}
Identifier(s)              == <<s.file, s.name>>
ResolveCall(symbols, call) ==
  LET found == Definitions(symbols, call.name)
  IN IF call.callee = Unresolved /\ Cardinality(found) = 1
     THEN [call EXCEPT !.callee = Identifier(CHOOSE s \in found : TRUE)]
     ELSE call

ExtractChanged ==
  /\ RefreshAt("extract")
  /\ LET symbols == RetainedSymbols \o NewSymbols
         vectors == RetainedVectors \o NewSymbols
         calls   == {c \in refresh.calls : c.file \notin Replaced}
                      \cup UNION {CallsOf(f, tree[f]) : f \in Extracted}
     IN Goes([refresh EXCEPT
          !.at = "save", !.symbols = symbols, !.embeddings = vectors, !.faiss = vectors,
          !.calls = {ResolveCall(symbols, c) : c \in calls},
          !.files = [f \in Files |-> IF f \in Extracted THEN [content |-> tree[f], parser |-> parser]
                                     ELSE IF f \in Replaced THEN NoRecord ELSE @[f]]])

\* save: each artifact is replaced as a whole, the manifest, with the hashes of what is on
\* disk, last.
SaveSteps == <<"symbols", "graph", "embeddings", "faiss">>
Content(name) == CASE name = "symbols"    -> refresh.symbols
                   [] name = "graph"      -> refresh.calls
                   [] name = "embeddings" -> refresh.embeddings
                   [] name = "faiss"      -> refresh.faiss
SaveArtifact ==
  /\ RefreshAt("save") /\ refresh.step < Len(SaveSteps)
  /\ LET name == SaveSteps[refresh.step + 1] IN artifact' = [artifact EXCEPT ![name] = Content(name)]
  /\ refresh' = [refresh EXCEPT !.step = @ + 1]
  /\ UNCHANGED <<tree, parser, metadata, lines, edits, deaths>>

CommitGeneration ==
  /\ RefreshAt("save") /\ refresh.step = Len(SaveSteps)
  /\ metadata' = [state |-> "whole", files |-> refresh.files, hashes |-> artifact]
  /\ refresh' = [refresh EXCEPT !.at = "ready", !.step = 0]
  /\ UNCHANGED <<tree, parser, artifact, lines, edits, deaths>>

\* The process answers its question and ends.
RefreshEnds == RefreshAt("ready") /\ Goes(Cleared)

RefreshDies ==
  /\ refresh.at \notin {"down", "ready"} /\ deaths < MaxRefreshDeaths /\ deaths' = deaths + 1
  /\ refresh' = Cleared
  /\ UNCHANGED <<tree, parser, artifact, metadata, lines, edits>>

\* A command that only asks loads: it fails, knows the line index alone, or both.
LoadIndexes ==
  /\ RefreshAt("down") /\ lines.index.state # "missing" /\ lines.chunks.state # "missing"
  /\ LET torn == lines.index.state = "torn" \/ lines.chunks.state = "torn"
     IN Goes(IF torn \/ (metadata.state = "whole" /\ ~Loads(metadata, artifact)) THEN Cleared
             ELSE [Cleared EXCEPT !.at = "ready", !.index = lines.index.body,
                                  !.chunks = lines.chunks.body, !.symbols = artifact.symbols,
                                  !.embeddings = artifact.embeddings, !.calls = artifact.graph,
                                  !.faiss = artifact.faiss, !.files = metadata.files])

CINext ==
  \/ TreeChanges \/ (\E full \in BOOLEAN : Reindex(full)) \/ SaveLineIndex \/ RefreshSymbols
  \/ LoadStored \/ ExtractChanged \/ SaveArtifact \/ CommitGeneration \/ RefreshEnds
  \/ RefreshDies \/ LoadIndexes

CISpec == CIInit /\ [][CINext]_ciVars
-----------------------------------------------------------------------------
\* Every variable keeps its type.
CITypeOK ==
  /\ tree \in [Files -> {NoFile} \cup Contents] /\ parser \in 0..2
  /\ edits \in 0..MaxEdits /\ deaths \in 0..MaxRefreshDeaths

\* symbol_index.py 262-263, 304-333: what a load accepts is one generation, wherever the
\* refresh that wrote it, or one after it, died: the symbols are exactly those of the recorded
\* contents, every vector is its symbol's, and the search index is that of the vectors.
LoadedGenerationIsWhole ==
  metadata.state = "whole" /\ Loads(metadata, artifact) =>
    /\ artifact.embeddings = artifact.symbols /\ artifact.faiss = artifact.embeddings
    /\ {artifact.symbols[i] : i \in DOMAIN artifact.symbols} =
         UNION {SymbolsOf(f, metadata.files[f].content) : f \in Files}
    /\ \A c \in artifact.graph : c.name \in metadata.files[c.file].content.calls

\* multi-language-code-intelligence.md 20: a refresh leaves no file with facts of a content
\* or a parser it no longer has; without the parser an unchanged file keeps its facts.
RefreshedFactsAreCurrent ==
  RefreshAt("save") => \A f \in Files :
           LET record == refresh.files[f]
           IN /\ record # NoRecord => /\ refresh.hashes[f] # NoFile
                                      /\ parser # 0 => record.parser = parser
              /\ parser = 0 /\ metadata.state = "whole" /\ Loads(metadata, artifact)
                   /\ metadata.files[f].content = refresh.hashes[f] /\ ~refresh.full
                   => record = metadata.files[f]

\* code-intelligence.md 19, "Direct calls with one unambiguous repository definition produce
\* confirmed edges": after a refresh a confirmed edge leads to a symbol of the index.
ConfirmedEdgesExist ==
  RefreshAt("ready") => \A c \in refresh.calls : c.callee # Unresolved =>
           \E i \in DOMAIN refresh.symbols : Identifier(refresh.symbols[i]) = c.callee
=============================================================================
