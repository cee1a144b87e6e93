----------------------------- MODULE QueryModes -----------------------------
(***************************************************************************)
(* One call of Pipeline.Query of s11 in one of its four modes, beside a    *)
(* writer of the chunks and the graph: the stores lock single calls, a     *)
(* query makes many.  An entity or a relationship is its key and the list  *)
(* of chunks it comes from.  The vector indexes are left out: a search     *)
(* returns some of what the index holds, and the record of a relationship  *)
(* there has a list of its own, which may differ from that in the graph.   *)
(* A prompt is its tokens.                                                 *)
(***************************************************************************)
EXTENDS Integers, Sequences, FiniteSets, SequencesExt

CONSTANTS
  Chunks,
  Ents,    \* names; one that is no node of the graph stands for a missing end too
  Rels,    \* <<SrcID, TgtID>> of the relationships there may be
  Lists,   \* values of SourceIDs, in order
  Slices,  \* the edges the graph may start with, in the order of its slice
  Size,    \* Chunks -> tokens of a chunk
  Line,    \* tokens of an entity or relationship in the prompt
  Header,  \* tokens of the fixed text before the chunks
  Params   \* settings: [TopK, ChunkTopK, MaxEntityTokens, ...]

Edges == [rel : Rels, src : Lists]

\* UpsertEdge keeps one edge per pair of ends in this direction.
ASSUME QueryConstants ==
  /\ IsFiniteSet(Chunks) /\ IsFiniteSet(Ents)
  /\ Rels \subseteq Ents \X Ents /\ Lists \subseteq Seq(Chunks)
  /\ Slices \subseteq Seq(Edges)
  /\ \A slice \in Slices : \A j, k \in DOMAIN slice : slice[j].rel = slice[k].rel => j = k
  /\ Size \in [Chunks -> Nat] /\ Line \in Nat /\ Header \in Nat
  /\ Params \subseteq [TopK : Nat, ChunkTopK : Nat, MaxEntityTokens : Nat,
                       MaxRelationTokens : Nat, MaxTotalTokens : Nat]

VARIABLES
  mode, param,             \* the call
  graphNodes, graphEdges,  \* nodes and edges of memGraphStore
  kv,                      \* the chunks in the store
  queryAt,                 \* where the query is
  searches,                \* keywords to search the two indexes by
  todo,                    \* hits that are not looked up yet
  loc, glo,                \* the two halves: entSet, relSet and chunk ids
  ents, rels,              \* entSet and relSet of the query
  chunkIDs,                \* the ids to fetch, cut to ChunkTopK
  rows,                    \* the fetched ones that have content
  shown,                   \* the rows that are in the prompt, at least in part
  references               \* QueryResult.References

graph == <<graphNodes, graphEdges>>
store == <<graph, kv>>
call == <<mode, param>>
queryVars == <<call, store, queryAt, searches, todo, loc, glo, ents, rels, chunkIDs, rows, shown, references>>

\* A Go map from keys to lists of chunks; <<>> is the empty one.
Maps(keys) == UNION {[set -> Lists] : set \in SUBSET keys}
NoHalf == [ents |-> <<>>, rels |-> <<>>, ids |-> <<>>]
NoSearch == [low |-> 0, high |-> 0]

QueryInit ==
  /\ mode \in {"naive", "local", "global", "hybrid"}
  /\ param \in Params
  /\ graphNodes \in Maps(Ents) /\ graphEdges \in Slices
  /\ kv \in SUBSET Chunks
  /\ queryAt = "start" /\ searches = NoSearch /\ todo = {}
  /\ loc = NoHalf /\ glo = NoHalf
  /\ ents = <<>> /\ rels = <<>> /\ chunkIDs = <<>>
  /\ rows = <<>> /\ shown = <<>> /\ references = <<>>

-----------------------------------------------------------------------------
Cut(seq, n) == SubSeq(seq, 1, IF Len(seq) < n THEN Len(seq) ELSE n)

\* Mutant: an id is kept as often as it is met.
Repeating(ids) == ids

\* The loops over seen: the first occurrence of each id stays.
Unique(ids) == FoldLeft(LAMBDA seq, id : IF Contains(seq, id) THEN seq ELSE Append(seq, id), <<>>, ids)

\* Go ranges over the keys of a map in any order.
Ranged(map) == SetToSeqs(DOMAIN map)
SourceChunks(keys, map) == FlattenSeq([k \in DOMAIN keys |-> map[keys[k]]])

\* map[key] = value for each pair of more.
Assign(map, more) ==
  [key \in DOMAIN map \cup DOMAIN more |-> IF key \in DOMAIN more THEN more[key] ELSE map[key]]

\* Opposite edges have one key.
edgeKey(rel) == {rel[1], rel[2]}

\* GetSubgraph of memGraphStore at depth 1: the seed, and as many of its
\* neighbours as maxNodes leaves room for; but every edge of the seed, to
\* whatever end, unless the seed alone fills maxNodes.
Filled(set) == Cardinality(set) >= param.TopK
SubNodes(seed) ==
  LET Add(set, edge) == IF seed \notin edgeKey(edge.rel) \/ Filled(set) THEN set
                        ELSE set \cup (edgeKey(edge.rel) \cap DOMAIN graphNodes)
  IN  FoldLeft(Add, {seed} \cap DOMAIN graphNodes, graphEdges)
SubEdges(seed) ==
  IF Filled({seed} \cap DOMAIN graphNodes) THEN {}
  ELSE {k \in DOMAIN graphEdges : seed \in edgeKey(graphEdges[k].rel)}

\* The nodes among these names; and these edges by their key, of which the
\* last in the slice stays.
NodesOf(names) == [e \in names \cap DOMAIN graphNodes |-> graphNodes[e]]
EdgesOf(set) ==
  [key \in {edgeKey(graphEdges[k].rel) : k \in set} |->
     graphEdges[Max({k \in set : edgeKey(graphEdges[k].rel) = key})].src]

\* What the model lists as keywords of one level, under the name it was told
\* or in camel case: whether each has ink.  Two stand for any number.
KeywordLists == UNION {[1..n -> BOOLEAN] : n \in 0..2}
cleanList(words) == SelectSeq(words, LAMBDA w : w)
parseKeywordJSON(told, camel) == cleanList(IF told # <<>> THEN told ELSE camel)

\* Without a keyword, the query is searched for.
SearchesFor(words) == IF words = <<>> THEN 1 ELSE Len(words)
Searches == {SearchesFor(parseKeywordJSON(told, camel)) : told, camel \in KeywordLists}

\* Up to TopK hits for each keyword, each hit once (dedupHits).
Hits(set, n) == {h \in SUBSET set : Cardinality(h) <= n * param.TopK}

QueryFails ==
  /\ queryAt' = "error"
  /\ UNCHANGED <<call, store, searches, todo, loc, glo, ents, rels, chunkIDs, rows, shown, references>>

\* An empty query, an unknown mode, a missing dependency; and each call of
\* the model, of the embedder or of a store may fail, but for the look-up of
\* an end, whose error is ignored.
Refused == queryAt \in {"start", "searchLocal", "expand", "searchGlobal", "fetch", "complete"} /\ QueryFails

-----------------------------------------------------------------------------
\* queryNaive up to the ids: without hits it answers without the model.
SearchChunks ==
  /\ queryAt = "start" /\ mode = "naive"
  /\ \E set \in SUBSET Chunks : \E hits \in SetToSeqs(set) :
       /\ Len(hits) <= param.ChunkTopK
       /\ chunkIDs' = hits
       /\ queryAt' = IF hits = <<>> THEN "done" ELSE "fetch"
  /\ UNCHANGED <<call, store, searches, todo, loc, glo, ents, rels, rows, shown, references>>

\* One call of the model; local mode ignores the high level, global the low.
Keywords ==
  /\ queryAt = "start" /\ mode # "naive"
  /\ searches' \in [low : IF mode = "global" THEN {0} ELSE Searches,
                    high : IF mode = "local" THEN {0} ELSE Searches]
  /\ queryAt' = IF mode = "global" THEN "searchGlobal" ELSE "searchLocal"
  /\ UNCHANGED <<call, store, todo, loc, glo, ents, rels, chunkIDs, rows, shown, references>>

\* queryLocal steps 2 to 5, retrieveLocal: the hits,
SearchLocal ==
  /\ queryAt = "searchLocal"
  /\ todo' \in Hits(Ents, searches.low)
  /\ searches' = [searches EXCEPT !.low = 0]
  /\ queryAt' = "expand"
  /\ UNCHANGED <<call, store, loc, glo, ents, rels, chunkIDs, rows, shown, references>>

\* the subgraph of each, as the graph is by then,
Expand(e) ==
  /\ queryAt = "expand" /\ e \in todo
  /\ todo' = todo \ {e}
  /\ loc' = [loc EXCEPT !.ents = Assign(@, NodesOf(SubNodes(e))), !.rels = Assign(@, EdgesOf(SubEdges(e)))]
  /\ UNCHANGED <<call, store, searches, queryAt, glo, ents, rels, chunkIDs, rows, shown, references>>

\* and the chunks of the entities, then those of the edges.
CollectLocal ==
  /\ queryAt = "expand" /\ todo = {}
  /\ \E es \in Ranged(loc.ents) : \E rs \in Ranged(loc.rels) :
       loc' = [loc EXCEPT !.ids = Unique(SourceChunks(es, loc.ents) \o SourceChunks(rs, loc.rels))]
  /\ queryAt' = IF mode = "hybrid" THEN "searchGlobal" ELSE "merge"
  /\ UNCHANGED <<call, store, searches, todo, glo, ents, rels, chunkIDs, rows, shown, references>>

\* queryGlobal steps 2 to 5, retrieveGlobal: the hits,
SearchGlobal ==
  /\ queryAt = "searchGlobal"
  /\ todo' \in Hits(Edges, searches.high)
  /\ searches' = NoSearch
  /\ queryAt' = "lookUp"
  /\ UNCHANGED <<call, store, loc, glo, ents, rels, chunkIDs, rows, shown, references>>

\* the relationship each has in the index, and those of its ends that the
\* graph has by then; a later hit replaces one with the same key,
LookUp(hit) ==
  /\ queryAt = "lookUp" /\ hit \in todo
  /\ todo' = todo \ {hit}
  /\ glo' = [glo EXCEPT !.rels = Assign(@, [key \in {edgeKey(hit.rel)} |-> hit.src]),
                        !.ents = Assign(@, NodesOf(edgeKey(hit.rel)))]
  /\ UNCHANGED <<call, store, searches, queryAt, loc, ents, rels, chunkIDs, rows, shown, references>>

\* and the chunks of the relationships, then those of their ends.
CollectGlobal ==
  /\ queryAt = "lookUp" /\ todo = {}
  /\ \E rs \in Ranged(glo.rels) : \E es \in Ranged(glo.ents) :
       glo' = [glo EXCEPT !.ids = Unique(SourceChunks(rs, glo.rels) \o SourceChunks(es, glo.ents))]
  /\ queryAt' = "merge"
  /\ UNCHANGED <<call, store, searches, todo, loc, ents, rels, chunkIDs, rows, shown, references>>

\* Mutant: the global half does not replace what the local one has.
KeepLocal == Assign(glo.ents, loc.ents)

MergedEnts == Assign(loc.ents, glo.ents)

\* Of each name and each key the record of the global half, where it has one;
\* local ids first, then the global ones not seen yet, cut to ChunkTopK.
Merge ==
  /\ queryAt = "merge"
  /\ ents' = MergedEnts
  /\ rels' = Assign(loc.rels, glo.rels)
  /\ chunkIDs' = Cut(Unique(loc.ids \o glo.ids), param.ChunkTopK)
  /\ queryAt' = "fetch"
  /\ UNCHANGED <<call, store, searches, todo, loc, glo, rows, shown, references>>

\* What is missing or blank is skipped.
fetchChunks(ids) == FoldLeft(LAMBDA seq, c : IF c \in kv THEN Append(seq, c) ELSE seq, <<>>, ids)

Fetch ==
  /\ queryAt = "fetch"
  /\ rows' = fetchChunks(chunkIDs)
  /\ queryAt' = IF mode = "naive" /\ rows' = <<>> THEN "done" ELSE "complete"
  /\ UNCHANGED <<call, store, searches, todo, loc, glo, ents, rels, chunkIDs, shown, references>>

-----------------------------------------------------------------------------
RowTokens(seq) == FoldLeft(LAMBDA sum, c : sum + Size[c], 0, seq)
Least(m, n) == IF m < n THEN m ELSE n

Section(map, max) == Least(Line * Cardinality(DOMAIN map), max)
UsedTokens == Section(ents, param.MaxEntityTokens) + Section(rels, param.MaxRelationTokens)
ChunkBudget == IF UsedTokens > param.MaxTotalTokens THEN 0 ELSE param.MaxTotalTokens - UsedTokens

\* Mutant: a chunk is measured after it is in.
PackedLate(seq, max) ==
  LET ok == {n \in 0..Len(seq) : \A k \in 1..n : RowTokens(SubSeq(seq, 1, k - 1)) < max}
  IN  SubSeq(seq, 1, CHOOSE n \in ok : \A k \in ok : k <= n)

\* truncateChunksByTokens: the longest prefix that fits, but never less than
\* the first chunk.
PackedChunks(seq, max) ==
  LET ok == {n \in 0..Len(seq) : \A k \in 1..n :
                /\ RowTokens(SubSeq(seq, 1, k - 1)) < max
                /\ k = 1 \/ RowTokens(SubSeq(seq, 1, k)) <= max}
  IN  SubSeq(seq, 1, CHOOSE n \in ok : \A k \in ok : k <= n)

\* The last truncation, to MaxTotalTokens, counts the fixed text and a label
\* per chunk too: the chunks of which at least a word is left.
Left(seq) ==
  LET ok == {n \in 0..Len(seq) : \A k \in 1..n :
               Header + UsedTokens + RowTokens(SubSeq(seq, 1, k - 1)) + k - 1 < param.MaxTotalTokens}
  IN  SubSeq(seq, 1, CHOOSE n \in ok : \A k \in ok : k <= n)

\* buildSystemPrompt and the synthesis call; the references are those of all
\* rows.
Complete ==
  /\ queryAt = "complete"
  /\ shown' = Left(PackedChunks(rows, ChunkBudget))
  /\ references' = rows
  /\ queryAt' = "done"
  /\ UNCHANGED <<call, store, searches, todo, loc, glo, ents, rels, chunkIDs, rows>>

\* The writer: a node of this name and an edge with these ends are replaced.
StoreChunk(c) == c \notin kv /\ kv' = kv \cup {c} /\ UNCHANGED graph
DeleteChunk(c) == c \in kv /\ kv' = kv \ {c} /\ UNCHANGED graph
UpsertNode(e, src) ==
  /\ graphNodes' = Assign(graphNodes, [name \in {e} |-> src])
  /\ UNCHANGED <<graphEdges, kv>>
UpsertEdge(edge) ==
  /\ graphEdges' = IF \E k \in DOMAIN graphEdges : graphEdges[k].rel = edge.rel
                   THEN [k \in DOMAIN graphEdges |->
                           IF graphEdges[k].rel = edge.rel THEN edge ELSE graphEdges[k]]
                   ELSE Append(graphEdges, edge)
  /\ UNCHANGED <<graphNodes, kv>>

Write ==
  /\ queryAt \notin {"done", "error"}
  /\ \/ \E c \in Chunks : StoreChunk(c) \/ DeleteChunk(c)
     \/ \E e \in Ents, src \in Lists : UpsertNode(e, src)
     \/ \E edge \in Edges : UpsertEdge(edge)
  /\ UNCHANGED <<call, queryAt, searches, todo, loc, glo, ents, rels, chunkIDs, rows, shown, references>>

QueryReturned == queryAt \in {"done", "error"} /\ UNCHANGED queryVars

QueryNext ==
  \/ Refused \/ SearchChunks \/ Keywords
  \/ SearchLocal \/ (\E e \in Ents : Expand(e)) \/ CollectLocal
  \/ SearchGlobal \/ (\E hit \in Edges : LookUp(hit)) \/ CollectGlobal
  \/ Merge \/ Fetch \/ Complete \/ Write \/ QueryReturned

QuerySpec == QueryInit /\ [][QueryNext]_queryVars

-----------------------------------------------------------------------------
ChunksOf(map) == UNION {ToSet(map[key]) : key \in DOMAIN map}

\* The reason a chunk is in the context for, the strongest first.
Grade(c) ==
  IF c \in ChunksOf(loc.ents) THEN 1
  ELSE IF c \in ChunksOf(loc.rels) THEN 2
  ELSE IF c \in ChunksOf(glo.rels) THEN 3
  ELSE 4

\* The sources of all that the two halves found, and of what the context has.
Retrieved == ChunksOf(loc.ents) \cup ChunksOf(loc.rels) \cup ChunksOf(glo.rels) \cup ChunksOf(glo.ents)
InContext == ChunksOf(ents) \cup ChunksOf(rels)

\* A source of a record that more replaces.
ReplacedBy(more, map, c) == \E key \in DOMAIN map \cap DOMAIN more : c \in ToSet(map[key])

(***************************************************************************)
(* The references of a graph mode are distinct, at most ChunkTopK, and in  *)
(* order of grade: chunks of entities, of edges, then what only the        *)
(* global half found, of relationships and of their ends.  And the cut at  *)
(* ChunkTopK never drops a chunk for one of a lower grade.                 *)
(***************************************************************************)
ReferencesByRank ==
  mode # "naive" /\ queryAt \in {"fetch", "complete", "done"} =>
    /\ Len(references) <= param.ChunkTopK
    /\ \A j, k \in DOMAIN references : j < k => /\ references[j] # references[k]
                                                /\ Grade(references[j]) <= Grade(references[k])
    /\ \A k \in DOMAIN chunkIDs : \A c \in Retrieved \ ToSet(chunkIDs) : Grade(chunkIDs[k]) <= Grade(c)

(***************************************************************************)
(* The chunks a graph mode fetches go with the records in its context,     *)
(* whatever the graph, the index and the writer made of them in between:   *)
(* unless ChunkTopK cuts them, every source of a record in the context is  *)
(* to be fetched; and one to be fetched that is a source of none is left   *)
(* over in a hybrid query from a local record, which one of the global     *)
(* half with the same name or the same two ends replaced.                  *)
(***************************************************************************)
ChunksFollowRecords ==
  mode # "naive" /\ queryAt \in {"fetch", "complete", "done"} =>
    /\ Len(chunkIDs) < param.ChunkTopK => InContext \subseteq ToSet(chunkIDs)
    /\ \A c \in ToSet(chunkIDs) \ InContext :
         /\ mode = "hybrid"
         /\ ReplacedBy(glo.ents, loc.ents, c) \/ ReplacedBy(glo.rels, loc.rels, c)

(***************************************************************************)
(* The chunks in the prompt keep within what the entities and              *)
(* relationships leave of MaxTotalTokens; only the first one may overrun   *)
(* it, and then it is alone.                                               *)
(***************************************************************************)
OnlyTheFirstOverruns ==
  RowTokens(shown) > ChunkBudget => Len(shown) = 1

(***************************************************************************)
(* What a query cites was, at least in part, in the prompt: QueryResult    *)
(* carries "the chunk IDs cited" (types.go).                               *)
(***************************************************************************)
CitesWhatItShowed ==
  queryAt = "done" => ToSet(references) \subseteq ToSet(shown)
=============================================================================
