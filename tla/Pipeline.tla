------------------------------ MODULE Pipeline ------------------------------
(***************************************************************************)
(* The minimum loop of s01 (pipeline.go): Insert cuts a document into      *)
(* chunks and puts their vectors into one store and their contents into    *)
(* another, and Query searches the first and reads the second.  The vector *)
(* store is one critical section per call; the key-value store is a        *)
(* sync.Map, which is read and written one id at a time.  Nothing joins    *)
(* the two, so a query may run between the two halves of an Insert.  A     *)
(* vector is the content it was made from.  Inserts come one after         *)
(* another, as the program makes them.                                     *)
(***************************************************************************)
EXTENDS Integers, Sequences, FiniteSets, SequencesExt

CONSTANTS
  Docs,        \* document ids
  Texts,       \* what a document may hold: sequences of paragraphs [name, runes]
  ChunkSize,   \* runes in a chunk
  TopK,        \* hits a query asks for
  MaxInserts,  \* bound: calls of Insert
  Absent       \* no row, no text

ASSUME PipelineConstants ==
  /\ ChunkSize \in Nat \ {0}
  /\ Texts \subseteq Seq([name : STRING, runes : Nat])

VARIABLES
  loopUp,     \* the process runs
  vdb,        \* InMemoryVectorStore: records [id, of]
  kv,         \* MemoryKVStore: id -> content, or Absent
  ins,        \* the Insert under way: [doc, chunks, at, todo]
  qry,        \* the Query under way: [at, hits, todo, rows]
  inserts,    \* calls of Insert so far
  inserted,   \* history: document -> chunks of the last Insert, Absent once it failed
  broken,     \* history: documents of which some Insert failed at the second store
  disturbed   \* history: an Insert changed the stores under the query

insertVars == <<ins, inserts, inserted, broken>>
queryVars == <<qry, disturbed>>
loopVars == <<loopUp, vdb, kv, insertVars, queryVars>>

-----------------------------------------------------------------------------
\* A paragraph is cut hard into pieces of ChunkSize runes; one without ink
\* (no runes once it is trimmed) gives none.
Pieces(p) == [k \in 1..((p.runes + ChunkSize - 1) \div ChunkSize) |-> <<p.name, k>>]

ChunkByNewlines(text) == FlattenSeq([i \in DOMAIN text |-> Pieces(text[i])])

ChunkIds == Docs \X (0..Max({Len(ChunkByNewlines(t)) : t \in Texts} \cup {1}) - 1)

\* The id of the k-th chunk: "<docID>::chunk-<k - 1>".
chunkID(doc, k) == <<doc, k - 1>>
ChunkRecords(doc, chunks) == {[id |-> chunkID(doc, k), of |-> chunks[k]] : k \in DOMAIN chunks}

NoInsert == [doc |-> Absent, chunks |-> <<>>, at |-> "idle", todo |-> {}]
NoQuery == [at |-> "idle", hits |-> {}, todo |-> {}, rows |-> <<>>]

LoopInit ==
  /\ loopUp = TRUE
  /\ vdb = {} /\ kv = [id \in ChunkIds |-> Absent]
  /\ ins = NoInsert /\ qry = NoQuery
  /\ inserts = 0 /\ inserted = [d \in Docs |-> <<>>] /\ broken = {} /\ disturbed = FALSE

-----------------------------------------------------------------------------
(* Insert.                                                                 *)

\* A text without chunks is refused before anything is stored.
BeginInsert(doc, text) ==
  /\ loopUp /\ ins.at = "idle" /\ inserts < MaxInserts
  /\ inserts' = inserts + 1
  /\ ins' = IF ChunkByNewlines(text) = <<>> THEN NoInsert
            ELSE [doc |-> doc, chunks |-> ChunkByNewlines(text), at |-> "embed", todo |-> {}]
  /\ UNCHANGED <<loopUp, vdb, kv, inserted, broken, queryVars>>

\* The embedder fails, or answers another number of vectors.
EmbedFails ==
  /\ loopUp /\ ins.at = "embed"
  /\ ins' = NoInsert
  /\ UNCHANGED <<loopUp, vdb, kv, inserts, inserted, broken, queryVars>>

\* Mutant: a record is appended although its id is there.
Appended(recs) == vdb \cup recs

\* InMemoryVectorStore.Upsert replaces the record of an id or appends it.
Upserted(recs) == {r \in vdb : \A n \in recs : n.id # r.id} \cup recs

PutVectors ==
  /\ loopUp /\ ins.at = "embed"
  /\ vdb' = Upserted(ChunkRecords(ins.doc, ins.chunks))
  /\ ins' = [ins EXCEPT !.at = "contents",
                        !.todo = {chunkID(ins.doc, k) : k \in DOMAIN ins.chunks}]
  /\ inserted' = [inserted EXCEPT ![ins.doc] = Absent]
  /\ disturbed' = (disturbed \/ qry.at = "fetch")
  /\ UNCHANGED <<loopUp, kv, inserts, broken, qry>>

\* The key-value store refuses the call, as that of s05 does when the context
\* is cancelled; the vectors stay.
PutRefused ==
  /\ loopUp /\ ins.at = "contents" /\ Cardinality(ins.todo) = Len(ins.chunks)
  /\ ins' = NoInsert
  /\ broken' = broken \cup {ins.doc}
  /\ UNCHANGED <<loopUp, vdb, kv, inserts, inserted, queryVars>>

ContentAt(id) == ins.chunks[id[2] + 1]

\* Mutant: a content that is there already is kept.
StoredOnce(id) == IF kv[id] = Absent THEN ContentAt(id) ELSE kv[id]

StoredContent(id) == ContentAt(id)

\* One Store of the sync.Map; the map of items is ranged over in any order.
PutContent(id) ==
  /\ loopUp /\ ins.at = "contents" /\ id \in ins.todo
  /\ kv' = [kv EXCEPT ![id] = StoredContent(id)]
  /\ IF ins.todo = {id}
     THEN ins' = NoInsert /\ inserted' = [inserted EXCEPT ![ins.doc] = ins.chunks]
     ELSE ins' = [ins EXCEPT !.todo = @ \ {id}] /\ inserted' = inserted
  /\ UNCHANGED <<loopUp, vdb, inserts, broken, queryVars>>

-----------------------------------------------------------------------------
(* Query.                                                                  *)

\* The question may lie anywhere, so the best TopK records are any TopK.
Search ==
  /\ loopUp /\ qry.at = "idle"
  /\ \E hits \in SUBSET vdb :
       /\ Cardinality(hits) = IF Cardinality(vdb) < TopK THEN Cardinality(vdb) ELSE TopK
       /\ qry' = [at |-> "fetch", hits |-> hits, todo |-> {h.id : h \in hits}, rows |-> <<>>]
  /\ disturbed' = (ins.at = "contents")
  /\ UNCHANGED <<loopUp, vdb, kv, insertVars>>

\* The embedder answers without a vector, which Insert looks for and Query
\* does not: the program panics.
Panic ==
  /\ loopUp /\ qry.at = "idle"
  /\ loopUp' = FALSE
  /\ UNCHANGED <<vdb, kv, insertVars, queryVars>>

WithRow(rows, id) == [i \in DOMAIN rows \cup {id} |-> IF i = id THEN kv[id] ELSE rows[i]]

\* One Load of the sync.Map; an id without a row has an empty body.
FetchRow(id) ==
  /\ loopUp /\ qry.at = "fetch" /\ id \in qry.todo
  /\ qry' = [qry EXCEPT !.todo = @ \ {id}, !.rows = WithRow(qry.rows, id)]
  /\ UNCHANGED <<loopUp, vdb, kv, insertVars, disturbed>>

\* The prompt is made of the rows, and the model answers or fails.
Complete ==
  /\ loopUp /\ qry.at = "fetch" /\ qry.todo = {}
  /\ qry' = NoQuery /\ disturbed' = FALSE
  /\ UNCHANGED <<loopUp, vdb, kv, insertVars>>

LoopNext ==
  \/ \E doc \in Docs, text \in Texts : BeginInsert(doc, text)
  \/ EmbedFails \/ PutVectors \/ PutRefused
  \/ \E id \in ChunkIds : PutContent(id) \/ FetchRow(id)
  \/ Search \/ Panic \/ Complete

LoopSpec == LoopInit /\ [][LoopNext]_loopVars

-----------------------------------------------------------------------------
\* Once an Insert has returned without an error, both stores hold each chunk
\* of its text, the vector once and made from that very content, whatever
\* the document held before and whichever earlier Inserts of it failed half
\* way: an Insert that is made again repairs what a failed one left.
InsertRepairs ==
  \A d \in Docs : inserted[d] # Absent =>
    \A k \in DOMAIN inserted[d] :
      /\ {r \in vdb : r.id = chunkID(d, k)} = {[id |-> chunkID(d, k), of |-> inserted[d][k]]}
      /\ kv[chunkID(d, k)] = inserted[d][k]

\* A query that no Insert overlapped shows the model, for each hit, the
\* content the hit was found by, also where the hit is a chunk that an older
\* and longer version of the document left behind.
QuietQueryShowsItsHits ==
  qry.at = "fetch" /\ qry.todo = {} /\ ~disturbed =>
    \A h \in qry.hits : h.id[1] \notin broken => qry.rows[h.id] = h.of
=============================================================================
