------------------------------ MODULE MCStores ------------------------------
(***************************************************************************)
(* Small instances of the graph store of s08 (AdjacencyGraph), the vector  *)
(* index of s07 (CosineIndex) and the pipeline of s01 over its two stores  *)
(* (Pipeline).  They share nothing, so a run makes one of them go and      *)
(* leaves the others as they start; each is checked by itself and not in a *)
(* product.                                                                *)
(*                                                                         *)
(* Graph: an edge given from both sides, one that meets it, an entity at   *)
(* an end of one and an isolated one; the empty name and a self-loop are   *)
(* rejected.  Index: two scores of one length, one vector of another       *)
(* length, and an empty one.  Pipeline: texts of two chunks, cut from one  *)
(* paragraph or from two with a blank one between, of one chunk, and of    *)
(* none, so that a shorter version replaces a longer one and the other way *)
(* round.                                                                  *)
(***************************************************************************)
EXTENDS AdjacencyGraph, CosineIndex, Pipeline, TLC

CONSTANTS a, b, c, x, y

MCIds == {a, b, c}
MCRank == a :> 1 @@ b :> 2 @@ c :> 3
MCEntities == {[name |-> i, attr |-> x] : i \in {a, c, NoId}}
MCRelations ==
  {[src |-> p[1], tgt |-> p[2], attr |-> t] :
     p \in {<<a, b>>, <<b, a>>, <<c, b>>, <<a, a>>, <<NoId, b>>}, t \in {x, y}}

Vec(length, score) == [len |-> length, score |-> score]
MCVecs == {Vec(1, 0), Vec(1, 1), Vec(2, 1), Vec(0, 0)}

Para(name, runes) == [name |-> name, runes |-> runes]
MCTexts == {<<Para("p", 3)>>, <<Para("q", 1)>>, <<Para("blank", 0)>>,
            <<Para("r", 2), Para("blank", 0), Para("s", 1)>>}

VARIABLE running  \* which of the three goes

storeVars == <<vars, indexVars, loopVars, running>>

-----------------------------------------------------------------------------
StoresInit == Init /\ IndexInit /\ LoopInit /\ running \in {"graph", "index", "pipeline"}

GraphStep(A) == running = "graph" /\ A /\ UNCHANGED <<indexVars, loopVars, running>>
IndexStep(A) == running = "index" /\ A /\ UNCHANGED <<vars, loopVars, running>>
PipeStep(A) == running = "pipeline" /\ A /\ UNCHANGED <<vars, indexVars, running>>

\* A pipeline that panicked stays down.
PipelineDown == ~loopUp /\ UNCHANGED storeVars

StoresNext ==
  \/ \E e \in Entities : GraphStep(UpsertNode(e))
  \/ \E r \in Relations : GraphStep(UpsertEdge(r))
  \/ GraphStep(PersistSnapshot) \/ GraphStep(PersistRename) \/ GraphStep(PersistFails)
  \/ GraphStep(Crash) \/ GraphStep(Restart)
  \/ \E batch \in Batches : IndexStep(Upsert(batch))
  \/ \E ids \in SUBSET RecordIds \ {{}} : IndexStep(Delete(ids))
  \/ IndexStep(IndexSnapshot) \/ IndexStep(IndexRename) \/ IndexStep(IndexPersistFails)
  \/ IndexStep(IndexCrash) \/ IndexStep(IndexRestart)
  \/ \E doc \in Docs, text \in Texts : PipeStep(BeginInsert(doc, text))
  \/ PipeStep(EmbedFails) \/ PipeStep(PutVectors) \/ PipeStep(PutRefused)
  \/ \E id \in ChunkIds : PipeStep(PutContent(id)) \/ PipeStep(FetchRow(id))
  \/ PipeStep(Search) \/ PipeStep(Panic) \/ PipeStep(Complete)
  \/ PipelineDown

StoresSpec == StoresInit /\ [][StoresNext]_storeVars
=============================================================================
