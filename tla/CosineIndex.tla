---------------------------- MODULE CosineIndex ----------------------------
(***************************************************************************)
(* The vector index of s07 (cosine_index.go): records in a slice, a        *)
(* position index over their ids, and one dimension for all of them, fixed *)
(* by the first record and carried through the file.  Every operation is   *)
(* one critical section under mu.  A vector is its length and its cosine   *)
(* with the one query asked of the index.  A save is the snapshot and then *)
(* the rename or a failure; AtomicFile shows what lies between.            *)
(***************************************************************************)
EXTENDS Integers, Sequences, FiniteSets, SequencesExt, FiniteSetsExt

CONSTANTS
  RecordIds,   \* record ids
  NoRecordId,  \* the empty id
  Vecs,        \* vectors: [len, score]
  Before,      \* ids in string order: Before[i] is the rank of i
  MaxBatch,    \* bound: records in one call of Upsert
  Missing,     \* no record, no snapshot, no file
  IndexDown    \* the process is not running

ASSUME IndexConstants ==
  /\ Vecs \subseteq [len : Nat, score : Int]
  /\ MaxBatch \in Nat
  /\ NoRecordId \notin RecordIds
  /\ Missing \notin Vecs
  /\ Missing \notin [dim : Nat, data : Seq([id : RecordIds, vec : Vecs])]
  /\ {Missing, IndexDown} \intersect [RecordIds -> Vecs \union {Missing}] = {}
  /\ \A i \in RecordIds : Before[i] \in Int
  /\ \A i, j \in RecordIds : Before[i] = Before[j] => i = j

VARIABLES
  indexUp,      \* the process runs
  recs,         \* the records, in the order they came
  idIdx,        \* the position of each id in recs, 0 for none
  dim,          \* the dimension, 0 before the first record
  indexSaving,  \* the snapshot a Persist is about to rename, or Missing
  indexDisk     \* the canonical file, or Missing

memVars == <<recs, idIdx, dim>>
indexVars == <<indexUp, memVars, indexSaving, indexDisk>>

NoPositions == [id \in RecordIds |-> 0]
Empty == recs = <<>> /\ idIdx = NoPositions /\ dim = 0

IndexInit == Empty /\ indexUp = TRUE /\ indexSaving = Missing /\ indexDisk = Missing

-----------------------------------------------------------------------------
\* rebuildIndex: where two records share an id the last one counts.
Positions(rs) ==
  [id \in RecordIds |-> LET at == {i \in DOMAIN rs : rs[i].id = id}
                        IN  IF at = {} THEN 0 ELSE Max(at)]

\* Mutant: a known id is appended once more.
StoreAgain(ix, rec) ==
  [recs |-> Append(ix.recs, rec),
   idIdx |-> [ix.idIdx EXCEPT ![rec.id] = Len(ix.recs) + 1]]

\* One record of a batch: replace the record of a known id, append a new one.
Store(ix, rec) ==
  IF ix.idIdx[rec.id] # 0
  THEN [ix EXCEPT !.recs[ix.idIdx[rec.id]] = rec]
  ELSE [recs |-> Append(ix.recs, rec),
        idIdx |-> [ix.idIdx EXCEPT ![rec.id] = Len(ix.recs) + 1]]

\* The records before the first one that is refused.
Accepted(batch, d) ==
  LET refused == {i \in DOMAIN batch : batch[i].vec.len # d \/ batch[i].id = NoRecordId}
  IN  IF refused = {} THEN batch ELSE SubSeq(batch, 1, Min(refused) - 1)

\* The dimension after the first lines of Upsert.
Fixes(batch) == IF dim = 0 THEN batch[1].vec.len ELSE dim

\* A refused record ends the batch; those before it stay, and so does the
\* dimension.  A first vector of length zero fixes no dimension.
Upsert(batch) ==
  /\ indexUp
  /\ Fixes(batch) # 0
  /\ dim' = Fixes(batch)
  /\ LET ix == FoldLeft(Store, [recs |-> recs, idIdx |-> idIdx],
                        Accepted(batch, Fixes(batch)))
     IN  recs' = ix.recs /\ idIdx' = ix.idIdx
  /\ UNCHANGED <<indexUp, indexSaving, indexDisk>>

\* The records of rs that are in keep, in their order.
Filter(rs, keep) ==
  FoldLeft(LAMBDA kept, r : IF r \in keep THEN Append(kept, r) ELSE kept, <<>>, rs)

\* The records that a call of Delete keeps.
Survivors(rs, ids) == Filter(rs, {r \in ToSet(rs) : r.id \notin ids})

\* Mutant: the position index is left as it was.
DeleteNoRebuild(ids) ==
  /\ indexUp
  /\ recs' = Survivors(recs, ids)
  /\ idIdx' = [id \in RecordIds |-> IF id \in ids THEN 0 ELSE idIdx[id]]
  /\ UNCHANGED <<indexUp, dim, indexSaving, indexDisk>>

\* The survivors close up in order and the position index is rebuilt.
Delete(ids) ==
  /\ indexUp
  /\ recs' = Survivors(recs, ids)
  /\ idIdx' = Positions(recs')
  /\ UNCHANGED <<indexUp, dim, indexSaving, indexDisk>>

-----------------------------------------------------------------------------
IndexSnapshot ==
  /\ indexUp
  /\ indexSaving = Missing
  /\ indexSaving' = [dim |-> dim, data |-> recs]
  /\ UNCHANGED <<indexUp, memVars, indexDisk>>

\* Mutant: what is written is the live slice, not a copy of it.
IndexRenameLive ==
  /\ indexSaving # Missing
  /\ indexDisk' = [dim |-> dim, data |-> recs]
  /\ indexSaving' = Missing
  /\ UNCHANGED <<indexUp, memVars>>

IndexRename ==
  /\ indexSaving # Missing
  /\ indexDisk' = indexSaving
  /\ indexSaving' = Missing
  /\ UNCHANGED <<indexUp, memVars>>

IndexPersistFails ==
  /\ indexSaving # Missing
  /\ indexSaving' = Missing
  /\ UNCHANGED <<indexUp, memVars, indexDisk>>

IndexCrash ==
  /\ indexUp
  /\ indexUp' = FALSE
  /\ recs' = <<>> /\ idIdx' = NoPositions /\ dim' = 0
  /\ indexSaving' = Missing
  /\ UNCHANGED indexDisk

\* Mutant: the header of the file is not read back.
RestartNoDim ==
  /\ ~indexUp
  /\ indexUp' = TRUE
  /\ recs' = IF indexDisk = Missing THEN <<>> ELSE indexDisk.data
  /\ idIdx' = Positions(recs')
  /\ UNCHANGED <<dim, indexSaving, indexDisk>>

IndexRestart ==
  /\ ~indexUp
  /\ indexUp' = TRUE
  /\ recs' = IF indexDisk = Missing THEN <<>> ELSE indexDisk.data
  /\ dim' = IF indexDisk = Missing THEN 0 ELSE indexDisk.dim
  /\ idIdx' = Positions(recs')
  /\ UNCHANGED <<indexSaving, indexDisk>>

Records == [id : RecordIds \union {NoRecordId}, vec : Vecs]
Batches == UNION {[1..n -> Records] : n \in 1..MaxBatch}

IndexNext ==
  \/ \E batch \in Batches : Upsert(batch)
  \/ \E ids \in SUBSET RecordIds \ {{}} : Delete(ids)
  \/ IndexSnapshot \/ IndexRename \/ IndexPersistFails
  \/ IndexCrash \/ IndexRestart

IndexSpec == IndexInit /\ [][IndexNext]_indexVars

-----------------------------------------------------------------------------
(* Query.                                                                  *)

Better(a, b) ==
  \/ a.vec.score > b.vec.score
  \/ a.vec.score = b.vec.score /\ Before[a.id] < Before[b.id]

Hits(threshold) == Filter(recs, {r \in ToSet(recs) : r.vec.score >= threshold})

\* sort.Slice: some order of the hits in which none comes before a better one.
Sorted(hits) ==
  LET places == DOMAIN hits
      order == CHOOSE p \in Bijection(places, places) :
                 \A i, j \in places : i < j => ~Better(hits[p[j]], hits[p[i]])
  IN  [i \in places |-> hits[order[i]]]

\* Every record at or above the threshold, best first, cut at topK.
Query(topK, threshold) ==
  LET n == Len(Hits(threshold))
  IN  SubSeq(Sorted(Hits(threshold)), 1, IF topK < n THEN topK ELSE n)

-----------------------------------------------------------------------------
\* The position index and the records agree, so that an id has one record
\* and an Upsert of a known id replaces that one.
IndexAgrees ==
  /\ \A i \in DOMAIN recs : idIdx[recs[i].id] = i
  /\ \A id \in RecordIds : idIdx[id] # 0 =>
       idIdx[id] \in DOMAIN recs /\ recs[idIdx[id]].id = id

\* One dimension for all records of a file and of the memory, and the
\* dimension a file carries is that of the index that goes on from it, also
\* when all records were deleted in between.
OneDimension ==
  /\ \A i \in DOMAIN recs : recs[i].vec.len = dim
  /\ \A f \in {indexSaving, indexDisk} \ {Missing} :
       /\ \A i \in DOMAIN f.data : f.data[i].vec.len = f.dim
       /\ indexUp /\ f.dim # 0 => dim = f.dim

\* What a map from ids to vectors would answer: Query returns hits of
\* distinct ids with the vector last stored, as many as fit, best first with
\* equal scores in the order of the ids, and none worse than one left out
\* (vector_store.go, the Query contract; the comment on the sort).
Vector(rs, id) ==
  LET at == {i \in DOMAIN rs : rs[i].id = id}
  IN  IF at = {} THEN Missing ELSE rs[Max(at)].vec
Contents(rs) == [id \in RecordIds |-> Vector(rs, id)]

Scores == {v.score : v \in Vecs}
QueryAnswersMap ==
  \A topK \in 1..(Len(recs) + 1), threshold \in Scores :
    LET hits == Query(topK, threshold)
        found == {hits[i].id : i \in DOMAIN hits}
        fit == {id \in RecordIds : Contents(recs)[id] # Missing
                                  /\ Contents(recs)[id].score >= threshold}
        As(id) == [id |-> id, vec |-> Contents(recs)[id]]
    IN  /\ Len(hits) = IF topK < Cardinality(fit) THEN topK ELSE Cardinality(fit)
        /\ found \subseteq fit
        /\ \A i \in DOMAIN hits : hits[i] = As(hits[i].id)
        /\ \A i, j \in DOMAIN hits : i < j => Better(hits[i], hits[j])
        /\ \A id \in fit \ found, i \in DOMAIN hits : Better(hits[i], As(id))

\* The index implements the durable map of ids to vectors that the key-value
\* store implements too: each call, save, crash and start changes the map as
\* a whole, and the positions are no part of what a client sees.
AbstractIndex ==
  INSTANCE DurableMap WITH
    Keys <- RecordIds,
    Vals <- Vecs,
    Savers <- {"persist"},
    None <- Missing,
    Down <- IndexDown,
    mem <- IF indexUp THEN Contents(recs) ELSE IndexDown,
    disk <- IF indexDisk = Missing THEN Contents(<<>>) ELSE Contents(indexDisk.data),
    saving <- [s \in {"persist"} |->
                 IF indexSaving = Missing THEN Missing ELSE Contents(indexSaving.data)]
IndexImplementsDurableMap == AbstractIndex!Spec
=============================================================================
