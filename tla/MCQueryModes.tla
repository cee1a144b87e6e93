---------------------------- MODULE MCQueryModes ----------------------------
(***************************************************************************)
(* A query over a small store, for the run that follows one query to the   *)
(* references it returns: two chunks, of which the budget holds one.       *)
(***************************************************************************)
EXTENDS QueryModes, TLC

MCRels == {<<"e1", "e2">>}
MCLists == {<<"c1", "c2">>}
MCSlices == {<<>>}
MCSize == "c1" :> 3 @@ "c2" :> 2
MCParams == {[TopK |-> 2, ChunkTopK |-> 2, MaxEntityTokens |-> 3,
              MaxRelationTokens |-> 2, MaxTotalTokens |-> 8]}
=============================================================================
