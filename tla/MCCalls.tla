------------------------------ MODULE MCCalls ------------------------------
(***************************************************************************)
(* The five calls that keep no state between them: the walk of GetSubgraph *)
(* (SubgraphBFS), a call to a remote API (RemoteCall), the cutting of a    *)
(* text into chunks (Chunking), a merge of descriptions (Summarize) and a  *)
(* query (QueryModes).  A run makes one of them while the other four have  *)
(* already returned, so the instances are checked side by side and not as  *)
(* a product.                                                              *)
(*                                                                         *)
(* Walk: all graphs on four names, every seed and every budget.  Remote:   *)
(* three texts, so that a second batch follows a retried first one, and    *)
(* two retries, the default of s02.  Cutting: see MCChunking.  Merge: up   *)
(* to three records of two names, or of two edges in either direction, and *)
(* five and nine descriptions of one name, which need two and all three    *)
(* levels.  Query: three graphs, two lists of sources that any record of   *)
(* the graph and of the index may have, one write at any time (MaxWrites), *)
(* and settings under which each limit bites.                              *)
(***************************************************************************)
EXTENDS SubgraphBFS, RemoteCall, MCChunking, Summarize, QueryModes, TLC

CONSTANTS a, b, c, d, MaxWrites
MCIds == {a, b, c, d}
MCRank == a :> 1 @@ b :> 2 @@ c :> 3 @@ d :> 4

\* The k-th record: relationships have weights and keywords.  A description is
\* empty or has so many tokens, none if it is white space.
Empty == -1
Rec(n, t, k) ==
  [name |-> n, given |-> t # Empty, tokens |-> IF t = Empty THEN 0 ELSE t, sources |-> {k},
   weight |-> IF Len(n) = 2 THEN k ELSE 0,
   keywords |-> IF Len(n) = 2 /\ k # 2 THEN "trade" ELSE ""]
UpToThree(names, tokens) ==
  UNION {{[k \in 1..n |-> Rec(pair[k][1], pair[k][2], k)] : pair \in [1..n -> names \X tokens]} :
           n \in 0..3}
Entities == UpToThree({<<"x">>, <<"y">>}, {Empty, 0, 1, 3})
Relationships == UpToThree({<<"x", "y">>, <<"y", "x">>, <<"x", "z">>}, {Empty, 3})
LongInputs == {[k \in 1..n |-> Rec(<<"x">>, IF k = 4 THEN 3 ELSE 1, k)] : n \in {5, 9}}
MCLimits == {[budget |-> 3, window |-> 2, threshold |-> 2],
             [budget |-> 3, window |-> 4, threshold |-> 3]}

MCInputs == Entities \cup Relationships \cup LongInputs

\* The graph starts with two nodes and their edges in both directions, with
\* one of them and an edge to a missing end, or empty.
MCRels == {<<"e1", "e2">>, <<"e2", "e1">>, <<"e2", "e3">>}
MCLists == {<<"c1">>, <<"c3", "c2">>}
MCSlices ==
  {<<>>, <<[rel |-> <<"e2", "e3">>, src |-> <<"c1">>]>>,
   <<[rel |-> <<"e1", "e2">>, src |-> <<"c1">>], [rel |-> <<"e2", "e1">>, src |-> <<"c3", "c2">>]>>}
MCNodes == "e1" :> <<"c1">> @@ "e2" :> <<"c3", "c2">>
MCGraph ==
  \/ graphNodes = <<>> /\ graphEdges = <<>>
  \/ graphNodes = ("e2" :> <<"c1">>) /\ Len(graphEdges) = 1
  \/ graphNodes = MCNodes /\ Len(graphEdges) = 2
MCSize == "c1" :> 4 @@ "c2" :> 1 @@ "c3" :> 2
Settings(k, ck, total) ==
  [TopK |-> k, ChunkTopK |-> ck, MaxEntityTokens |-> 3, MaxRelationTokens |-> 2,
   MaxTotalTokens |-> total]

MCParams == {Settings(1, 2, 6), Settings(2, 2, 5)}

-----------------------------------------------------------------------------
\* How often the writer wrote during the query.
VARIABLE writes

allVars == <<vars, callVars, cutVars, mergeVars, queryVars, writes>>

WalkReturned ==
  /\ nodes = {} /\ adj = [i \in Ids |-> {}] /\ seed = a /\ maxDepth = 0 /\ maxNodes = 0
  /\ at = "done" /\ depth = 0 /\ order = <<>> /\ frontier = {} /\ cands = {} /\ next = {}
RemoteReturned ==
  /\ client = "Embed" /\ key = TRUE /\ texts = 0 /\ batchSize = 1 /\ maxRetries = 0
  /\ ctx = "live" /\ pc = "returned" /\ attempt = 0 /\ out = <<>> /\ result = "ok" /\ posts = <<>>
CutEmpty ==
  /\ cutCall = CutCall("tokens", "words", <<>>, <<2, 1>>)
  /\ stage = "refused" /\ start = 0 /\ cut = <<>>
NoMerge ==
  /\ records = <<>> /\ limits \in MCLimits /\ limits.window = 2 /\ mergeCtx = "live"
  /\ mergeAt = "merged" /\ merged = <<>> /\ level = 0 /\ asked = 0
  /\ descs = <<>> /\ chunks = <<>> /\ partials = <<>>
NoQuery ==
  /\ mode = "naive" /\ param = Settings(1, 2, 6) /\ graphNodes = <<>> /\ graphEdges = <<>> /\ kv = {}
  /\ queryAt = "error"
  /\ searches = NoSearch /\ todo = {} /\ loc = NoHalf /\ glo = NoHalf /\ ents = <<>> /\ rels = <<>>
  /\ chunkIDs = <<>> /\ rows = <<>> /\ shown = <<>> /\ references = <<>>

CallsInit == writes = 0 /\
  \/ Init /\ RemoteReturned /\ CutEmpty /\ NoMerge /\ NoQuery
  \/ WalkReturned /\ CallInit /\ CutEmpty /\ NoMerge /\ NoQuery
  \/ WalkReturned /\ RemoteReturned /\ CutInit /\ NoMerge /\ NoQuery
  \/ WalkReturned /\ RemoteReturned /\ CutEmpty /\ MergeInit /\ NoQuery
  \/ WalkReturned /\ RemoteReturned /\ CutEmpty /\ NoMerge /\ QueryInit /\ MCGraph

WalkStep(A) == A /\ UNCHANGED <<callVars, cutVars, mergeVars, queryVars, writes>>
RemoteStep(A) == A /\ UNCHANGED <<vars, cutVars, mergeVars, queryVars, writes>>
CutStep(A) == A /\ UNCHANGED <<vars, callVars, mergeVars, queryVars, writes>>
MergeStep(A) == A /\ UNCHANGED <<vars, callVars, cutVars, queryVars, writes>>
QueryStep(A) == A /\ UNCHANGED <<vars, callVars, cutVars, mergeVars, writes>>
WriteStep ==
  /\ writes < MaxWrites /\ writes' = writes + 1
  /\ Write /\ UNCHANGED <<vars, callVars, cutVars, mergeVars>>

CallsNext ==
  \/ WalkStep(ReturnEmpty) \/ WalkStep(Begin) \/ WalkStep(Collect)
  \/ WalkStep(Admit) \/ WalkStep(NextLevel) \/ WalkStep(Return)
  \/ RemoteStep(BeginCall) \/ RemoteStep(Send) \/ RemoteStep(Receive)
  \/ RemoteStep(Transient) \/ RemoteStep(Permanent) \/ RemoteStep(Wake)
  \/ RemoteStep(WaitCancelled) \/ RemoteStep(Cancel)
  \/ CutStep(Refuse) \/ CutStep(Accept) \/ CutStep(Emit) \/ CutStep(Skip) \/ CutStep(RunOff)
  \/ MergeStep(BeginGroup) \/ MergeStep(Finish) \/ MergeStep(GiveAsIs)
  \/ MergeStep(Split) \/ MergeStep(PassThrough)
  \/ \E size \in AnswerSizes : MergeStep(Reduce(size)) \/ MergeStep(GiveFinal(size))
  \/ MergeStep(ReduceFails) \/ MergeStep(Cancelled)
  \/ MergeStep(GivePartials) \/ MergeStep(Recurse)
  \/ MergeStep(GiveUnsummarized) \/ MergeStep(CancelMerge)
  \/ QueryStep(Refused) \/ QueryStep(SearchChunks) \/ QueryStep(Keywords)
  \/ QueryStep(SearchLocal) \/ QueryStep(CollectLocal)
  \/ \E e \in Ents : QueryStep(Expand(e))
  \/ QueryStep(SearchGlobal) \/ QueryStep(CollectGlobal)
  \/ \E hit \in Edges : QueryStep(LookUp(hit))
  \/ QueryStep(Merge) \/ QueryStep(Fetch) \/ QueryStep(Complete)
  \/ WriteStep
  \/ UNCHANGED writes /\ Stay /\ Returned /\ CutReturned /\ MergeReturned /\ QueryReturned

\* The fairness of SubgraphBFS and RemoteCall.
CallsSpec ==
  /\ CallsInit /\ [][CallsNext]_allVars
  /\ WF_allVars(WalkStep(Walk)) /\ WF_allVars(RemoteStep(Step))
=============================================================================
