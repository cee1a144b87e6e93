---------------------------- MODULE StoresProofs ----------------------------
(***************************************************************************)
(* Proofs about the graph store of s08 and the vector index of s07, for    *)
(* every set of names, ids and vectors and every input.  Graph: the three  *)
(* maps agree, every file is a graph, and a snapshot is enough to make the *)
(* three maps again.  Index: positions and records agree, all vectors have *)
(* the one dimension, and a query answers as a map would.  Both implement  *)
(* a durable map.                                                          *)
(***************************************************************************)
EXTENDS AdjacencyGraph, CosineIndex, Induction, FiniteSetTheorems, TLAPS

-----------------------------------------------------------------------------
(***************************************************************************)
(* The graph store (AdjacencyGraph).                                       *)
(***************************************************************************)

\* A process that is down holds nothing.
DownIsEmpty == ~up => /\ nodes = NoNodes /\ edges = NoEdges /\ adj = NoNodes
                      /\ saving = None

\* The inductive invariant.
GraphInv == TypeOK /\ MapsAgree /\ FilesAreGraphs /\ DownIsEmpty

-----------------------------------------------------------------------------
(* Edge keys.                                                              *)

LEMMA KeyOfEnds ==
  ASSUME NEW i \in Ids, NEW j \in Ids, i # j
  PROVE  /\ EdgeKey(i, j) \in EdgeKeys
         /\ EdgeKey(i, j) = EdgeKey(j, i)
         /\ {EdgeKey(i, j)[1], EdgeKey(i, j)[2]} = {i, j}
<1>1. Rank[i] \in Nat /\ Rank[j] \in Nat /\ Rank[i] # Rank[j]
  BY RankIsAnOrder
<1> QED
  BY <1>1 DEF EdgeKey, EdgeKeys

LEMMA KeyIsItsOwn ==
  ASSUME NEW k \in EdgeKeys
  PROVE  /\ k[1] \in Ids /\ k[2] \in Ids /\ k[1] # k[2]
         /\ EdgeKey(k[1], k[2]) = k
<1>1. k[1] \in Ids /\ k[2] \in Ids /\ k = <<k[1], k[2]>> /\ Rank[k[1]] < Rank[k[2]]
  BY DEF EdgeKeys
<1>2. Rank[k[1]] \in Nat
  BY <1>1, RankIsAnOrder
<1> QED
  BY <1>1, <1>2 DEF EdgeKey

\* Two names have one key, whichever comes first, and different pairs have
\* different keys.
LEMMA KeyOfPair ==
  ASSUME NEW i \in Ids, NEW j \in Ids, i # j, NEW k \in EdgeKeys
  PROVE  k = EdgeKey(i, j) <=> {k[1], k[2]} = {i, j}
<1>1. ASSUME {k[1], k[2]} = {i, j}
      PROVE  k = EdgeKey(i, j)
  <2>1. \/ k[1] = i /\ k[2] = j
        \/ k[1] = j /\ k[2] = i
    BY <1>1, KeyIsItsOwn
  <2> QED
    BY <2>1, KeyIsItsOwn, KeyOfEnds
<1> QED
  BY <1>1, KeyOfEnds

\* What UpsertEdge accepts is an edge.
LEMMA AcceptedEnds ==
  ASSUME NEW r \in Relations, IsEdge(r)
  PROVE  /\ r \in Edge /\ r # None
         /\ r.src \in Ids /\ r.tgt \in Ids /\ r.src # r.tgt
BY Inputs, NoneIsNoValue DEF IsEdge, Edge

-----------------------------------------------------------------------------
(* The file and back.                                                      *)

\* Loading tables that fit adds no node.
LEMMA LoadAddsNoNode ==
  ASSUME NEW f, f.nodes \in [Ids -> Attrs \union {Bare, None}],
         f.edges \in [EdgeKeys -> Edge \union {None}],
         Fits(f.nodes, f.edges)
  PROVE  LoadedNodes(f) = f.nodes
<1>1. ASSUME NEW r \in Stored(f), NEW i \in Ends(r)
      PROVE  i \in Ids /\ f.nodes[i] # None
  <2>1. PICK k \in EdgeKeys : r = f.edges[k] /\ r # None
    BY <1>1 DEF Stored
  <2>2. Ends(r) = {k[1], k[2]} /\ f.nodes[k[1]] # None /\ f.nodes[k[2]] # None
    BY <2>1 DEF Fits
  <2> QED
    BY <1>1, <2>2, KeyIsItsOwn
<1>2. \A i \in Ids : ~(i \in UNION {Ends(r) : r \in Stored(f)} /\ f.nodes[i] = None)
  BY <1>1
<1> QED
  BY <1>2 DEF LoadedNodes, WithEnds

\* The adjacency a load makes holds exactly the edges of the file.
LEMMA LoadedNeighbours ==
  ASSUME NEW f, f.nodes \in [Ids -> Attrs \union {Bare, None}],
         f.edges \in [EdgeKeys -> Edge \union {None}],
         Fits(f.nodes, f.edges),
         NEW i \in Ids, f.nodes[i] # None
  PROVE  /\ LoadedAdj(f)[i] \subseteq Ids
         /\ \A j \in Ids : j \in LoadedAdj(f)[i] <=>
              i # j /\ f.edges[EdgeKey(i, j)] # None
<1>1. LoadedAdj(f)[i] = EdgesAt(f, i)
  BY LoadAddsNoNode DEF LoadedAdj
<1>2. ASSUME NEW j \in EdgesAt(f, i)
      PROVE  j \in Ids /\ i # j /\ f.edges[EdgeKey(i, j)] # None
  <2>1. PICK r \in Stored(f) : j \in Ids /\ i # j /\ Ends(r) = {i, j}
    BY <1>2 DEF EdgesAt
  <2>2. PICK k \in EdgeKeys : r = f.edges[k] /\ r # None
    BY <2>1 DEF Stored
  <2>3. {k[1], k[2]} = {i, j}
    BY <2>1, <2>2 DEF Fits
  <2> QED
    BY <2>1, <2>2, <2>3, KeyOfPair
<1>3. ASSUME NEW j \in Ids, i # j, f.edges[EdgeKey(i, j)] # None
      PROVE  j \in EdgesAt(f, i)
  <2> DEFINE r == f.edges[EdgeKey(i, j)]
  <2>1. EdgeKey(i, j) \in EdgeKeys
    BY <1>3, KeyOfEnds
  <2>2. r \in Stored(f)
    BY <1>3, <2>1 DEF Stored
  <2>3. Ends(r) = {i, j}
    BY <1>3, <2>1, KeyOfEnds DEF Fits
  <2> QED
    BY <1>3, <2>2, <2>3 DEF EdgesAt
<1> QED
  BY <1>1, <1>2, <1>3

-----------------------------------------------------------------------------
(* Each operation keeps the invariant.                                     *)

LEMMA InitInv == Init => GraphInv
<1> SUFFICES ASSUME Init PROVE GraphInv
  OBVIOUS
<1>1. TypeOK
  BY DEF Init, TypeOK, NoNodes, NoEdges
<1>2. \A i, j \in Ids : i # j => edges[EdgeKey(i, j)] = None
  BY KeyOfEnds DEF Init, NoEdges
<1>3. MapsAgree
  BY <1>2 DEF Init, MapsAgree, Fits, NoNodes, NoEdges, Neighbours
<1> QED
  BY <1>1, <1>3 DEF Init, GraphInv, FilesAreGraphs, DownIsEmpty

LEMMA NodeKeeps ==
  ASSUME GraphInv, NEW e \in Entities, UpsertNode(e)
  PROVE  GraphInv'
<1> USE DEF GraphInv
<1>1. e.name \in Ids /\ e.attr \in Attrs /\ e.attr # None
  BY Inputs, NoneIsNoValue DEF UpsertNode
<1>2. nodes' = [nodes EXCEPT ![e.name] = e.attr]
      /\ adj' = [adj EXCEPT ![e.name] = Neighbours(adj, e.name)]
      /\ UNCHANGED <<up, edges, saving, disk>> /\ up
  BY DEF UpsertNode
<1>3. Neighbours(adj, e.name) \subseteq Ids /\ Neighbours(adj, e.name) # None
  BY <1>1, NoneIsNoValue DEF Neighbours, TypeOK
<1>4. TypeOK'
  BY <1>1, <1>2, <1>3 DEF TypeOK
<1>5. \A i \in Ids : /\ nodes'[i] = None <=> adj'[i] = None
                     /\ nodes[i] # None => nodes'[i] # None
                     /\ Neighbours(adj', i) = Neighbours(adj, i)
  BY <1>1, <1>2, <1>3 DEF TypeOK, MapsAgree, Neighbours
<1>6. Fits(nodes', edges')
  BY <1>2, <1>5, KeyIsItsOwn DEF MapsAgree, Fits
<1>7. MapsAgree'
  BY <1>2, <1>5, <1>6 DEF MapsAgree
<1> QED
  BY <1>2, <1>4, <1>7 DEF FilesAreGraphs, DownIsEmpty

LEMMA EdgeKeeps ==
  ASSUME GraphInv, NEW r \in Relations, UpsertEdge(r)
  PROVE  GraphInv'
<1> USE DEF GraphInv
<1> DEFINE key == EdgeKey(r.src, r.tgt)
<1>1. /\ r \in Edge /\ r # None /\ Ends(r) = {r.src, r.tgt}
      /\ r.src \in Ids /\ r.tgt \in Ids /\ r.src # r.tgt
  BY AcceptedEnds DEF UpsertEdge, Ends
<1>2. key \in EdgeKeys /\ {key[1], key[2]} = Ends(r)
  BY <1>1, KeyOfEnds
<1>3. /\ nodes' = WithEnds(nodes, Ends(r))
      /\ adj' = [i \in Ids |-> IF i \in Ends(r)
                               THEN Neighbours(adj, i) \union (Ends(r) \ {i})
                               ELSE adj[i]]
      /\ edges' = [edges EXCEPT ![key] = r]
      /\ UNCHANGED <<up, saving, disk>> /\ up
  BY DEF UpsertEdge
<1>4. \A i \in Ids : Neighbours(adj, i) \subseteq Ids
  BY DEF Neighbours, TypeOK
<1>5. \A i \in Ids : adj'[i] = None \/ adj'[i] \in SUBSET Ids
  BY <1>1, <1>3, <1>4 DEF TypeOK
<1>6. nodes' \in [Ids -> Attrs \union {Bare, None}]
  BY <1>3 DEF WithEnds, TypeOK
<1>7. edges' \in [EdgeKeys -> Edge \union {None}]
  BY <1>1, <1>2, <1>3 DEF TypeOK
<1>8. TypeOK'
  BY <1>3, <1>5, <1>6, <1>7 DEF TypeOK
<1>9. \A i \in Ids : /\ nodes[i] # None => nodes'[i] # None
                     /\ i \in Ends(r) => nodes'[i] # None
                     /\ i \notin Ends(r) => nodes'[i] = nodes[i]
  BY <1>3, NoneIsNoValue DEF WithEnds
<1>10. \A k \in EdgeKeys : edges'[k] = IF k = key THEN r ELSE edges[k]
  BY <1>2, <1>3 DEF TypeOK
<1>11. Fits(nodes', edges')
  <2> SUFFICES ASSUME NEW k \in EdgeKeys, edges'[k] # None
               PROVE  /\ Ends(edges'[k]) = {k[1], k[2]}
                      /\ nodes'[k[1]] # None /\ nodes'[k[2]] # None
    BY DEF Fits
  <2>1. CASE k = key
    BY <1>2, <1>9, <1>10, <2>1, KeyIsItsOwn
  <2>2. CASE k # key
    BY <1>9, <1>10, <2>2, KeyIsItsOwn DEF MapsAgree, Fits
  <2> QED
    BY <2>1, <2>2
<1>12. ASSUME NEW i \in Ids
       PROVE  nodes'[i] = None <=> adj'[i] = None
  <2>1. CASE i \in Ends(r)
    BY <1>1, <1>3, <1>4, <1>9, <2>1, NoneIsNoValue
  <2>2. CASE i \notin Ends(r)
    BY <1>3, <1>9, <2>2 DEF MapsAgree
  <2> QED
    BY <2>1, <2>2
<1>13. ASSUME NEW i \in Ids
       PROVE  Neighbours(adj', i) = IF i \in Ends(r)
                                    THEN Neighbours(adj, i) \union (Ends(r) \ {i})
                                    ELSE Neighbours(adj, i)
  BY <1>1, <1>3, <1>4, NoneIsNoValue DEF Neighbours
<1>14. ASSUME NEW i \in Ids, NEW j \in Ids, i # j
       PROVE  EdgeKey(i, j) = key <=> {i, j} = Ends(r)
  BY <1>1, <1>2, <1>14, KeyOfPair, KeyOfEnds
<1>15. ASSUME NEW i \in Ids, NEW j \in Ids
       PROVE  j \in Neighbours(adj', i) <=> i # j /\ edges'[EdgeKey(i, j)] # None
  <2>1. j \in Neighbours(adj, i) <=> i # j /\ edges[EdgeKey(i, j)] # None
    BY DEF MapsAgree
  <2>2. CASE i = j
    BY <1>13, <2>1, <2>2
  <2>3. CASE i # j /\ {i, j} = Ends(r)
    BY <1>1, <1>2, <1>10, <1>13, <1>14, <2>3
  <2>4. CASE i # j /\ {i, j} # Ends(r)
    <3>1. EdgeKey(i, j) \in EdgeKeys /\ EdgeKey(i, j) # key
      BY <1>14, <2>4, KeyOfEnds
    <3>2. ~(i \in Ends(r) /\ j \in Ends(r))
      BY <1>1, <2>4
    <3> QED
      BY <1>10, <1>13, <2>1, <2>4, <3>1, <3>2
  <2> QED
    BY <2>2, <2>3, <2>4
<1>16. MapsAgree'
  BY <1>11, <1>12, <1>15 DEF MapsAgree
<1> QED
  BY <1>3, <1>8, <1>16 DEF FilesAreGraphs, DownIsEmpty

\* The three maps are made again from the two tables.
LEMMA LoadMakesGraph ==
  ASSUME NEW f, f.nodes \in [Ids -> Attrs \union {Bare, None}],
         f.edges \in [EdgeKeys -> Edge \union {None}],
         Fits(f.nodes, f.edges)
  PROVE  /\ LoadedNodes(f) = f.nodes
         /\ LoadedAdj(f) \in [Ids -> {None} \union SUBSET Ids]
         /\ \A i \in Ids : f.nodes[i] = None <=> LoadedAdj(f)[i] = None
         /\ \A i, j \in Ids : j \in Neighbours(LoadedAdj(f), i) <=>
              i # j /\ f.edges[EdgeKey(i, j)] # None
<1>1. LoadedNodes(f) = f.nodes
  BY LoadAddsNoNode
<1>2. \A i \in Ids : EdgesAt(f, i) \in SUBSET Ids /\ EdgesAt(f, i) # None
  BY NoneIsNoValue DEF EdgesAt
<1>3. \A i \in Ids : LoadedAdj(f)[i] = IF f.nodes[i] = None THEN None ELSE EdgesAt(f, i)
  BY <1>1 DEF LoadedAdj
<1>4. LoadedAdj(f) \in [Ids -> {None} \union SUBSET Ids]
  BY <1>1, <1>2 DEF LoadedAdj
<1>5. ASSUME NEW i \in Ids, NEW j \in Ids
      PROVE  j \in Neighbours(LoadedAdj(f), i) <=>
               i # j /\ f.edges[EdgeKey(i, j)] # None
  <2>1. CASE f.nodes[i] # None
    BY <1>2, <1>3, <2>1, LoadedNeighbours DEF Neighbours
  <2>2. CASE f.nodes[i] = None
    <3>1. Neighbours(LoadedAdj(f), i) = {}
      BY <1>3, <2>2 DEF Neighbours
    <3>2. ASSUME i # j
          PROVE  f.edges[EdgeKey(i, j)] = None
      <4>1. EdgeKey(i, j) \in EdgeKeys
            /\ (EdgeKey(i, j)[1] = i \/ EdgeKey(i, j)[2] = i)
        BY <3>2, KeyOfEnds
      <4> QED
        BY <2>2, <4>1 DEF Fits
    <3> QED
      BY <3>1, <3>2
  <2> QED
    BY <2>1, <2>2
<1> QED
  BY <1>1, <1>2, <1>3, <1>4, <1>5

LEMMA PersistKeeps ==
  ASSUME GraphInv, PersistSnapshot \/ PersistRename \/ PersistFails
  PROVE  GraphInv'
<1> USE DEF GraphInv
<1>1. UNCHANGED <<up, graph>>
  BY DEF PersistSnapshot, PersistRename, PersistFails
<1>2. TypeOK' /\ FilesAreGraphs'
  <2>1. CASE PersistSnapshot
    <3>1. Snapshot \in Tables /\ Fits(Snapshot.nodes, Snapshot.edges)
      BY DEF Snapshot, Tables, TypeOK, MapsAgree
    <3> QED
      BY <1>1, <2>1, <3>1 DEF PersistSnapshot, TypeOK, FilesAreGraphs, graph
  <2>2. CASE PersistRename
    BY <1>1, <2>2 DEF PersistRename, TypeOK, FilesAreGraphs, graph
  <2>3. CASE PersistFails
    BY <1>1, <2>3 DEF PersistFails, TypeOK, FilesAreGraphs, graph
  <2> QED
    BY <2>1, <2>2, <2>3
<1>3. MapsAgree'
  BY <1>1 DEF MapsAgree, graph
<1>4. DownIsEmpty'
  BY <1>1 DEF DownIsEmpty, graph, PersistSnapshot, PersistRename, PersistFails
<1> QED
  BY <1>2, <1>3, <1>4

LEMMA FileIsGraph ==
  ASSUME GraphInv
  PROVE  /\ File.nodes \in [Ids -> Attrs \union {Bare, None}]
         /\ File.edges \in [EdgeKeys -> Edge \union {None}]
         /\ Fits(File.nodes, File.edges)
<1>1. CASE disk = None
  BY <1>1 DEF File, EmptyFile, NoNodes, NoEdges, Fits
<1>2. CASE disk # None
  BY <1>2 DEF File, Tables, GraphInv, TypeOK, FilesAreGraphs
<1> QED
  BY <1>1, <1>2

LEMMA CrashKeeps == GraphInv /\ Crash => GraphInv'
<1> SUFFICES ASSUME GraphInv, Crash PROVE GraphInv'
  OBVIOUS
<1> USE DEF GraphInv
<1>1. TypeOK' /\ FilesAreGraphs' /\ DownIsEmpty'
  BY DEF Crash, TypeOK, FilesAreGraphs, DownIsEmpty, NoNodes, NoEdges
<1>2. \A i, j \in Ids : i # j => edges'[EdgeKey(i, j)] = None
  BY KeyOfEnds DEF Crash, NoEdges
<1>3. MapsAgree'
  BY <1>2 DEF Crash, MapsAgree, Fits, NoNodes, NoEdges, Neighbours
<1> QED
  BY <1>1, <1>3

LEMMA RestartKeeps == GraphInv /\ Restart => GraphInv'
<1> SUFFICES ASSUME GraphInv, Restart PROVE GraphInv'
  OBVIOUS
<1>1. /\ nodes' = File.nodes /\ edges' = File.edges /\ adj' = LoadedAdj(File)
      /\ up' = TRUE /\ UNCHANGED <<saving, disk>>
  BY FileIsGraph, LoadMakesGraph DEF Restart
<1>2. TypeOK'
  BY <1>1, FileIsGraph, LoadMakesGraph DEF GraphInv, TypeOK
<1>3. MapsAgree'
  BY <1>1, FileIsGraph, LoadMakesGraph DEF MapsAgree
<1> QED
  BY <1>1, <1>2, <1>3 DEF GraphInv, FilesAreGraphs, DownIsEmpty

LEMMA StepInv == GraphInv /\ [Next]_vars => GraphInv'
<1> SUFFICES ASSUME GraphInv, [Next]_vars PROVE GraphInv'
  OBVIOUS
<1>1. CASE UNCHANGED vars
  BY <1>1 DEF vars, graph, GraphInv, TypeOK, MapsAgree, FilesAreGraphs, DownIsEmpty
<1> QED
  BY <1>1, NodeKeeps, EdgeKeeps, PersistKeeps, CrashKeeps, RestartKeeps DEF Next

-----------------------------------------------------------------------------
(* The theorems.                                                           *)

\* The three maps agree and every snapshot and file is a graph, after every
\* call, save, crash and start (AdjacencyGraph, all operations).
THEOREM GraphInvariant == Spec => []GraphInv
BY InitInv, StepInv, PTL DEF Spec

\* The graph store keeps its types (adjacency_graph.go, AdjacencyGraph).
THEOREM TypeCorrect == Spec => []TypeOK
<1>1. GraphInv => TypeOK
  BY DEF GraphInv
<1> QED
  BY <1>1, GraphInvariant, PTL

\* Nodes, edges and adjacency agree after any calls, failures and crashes
\* (UpsertNode, UpsertEdge, loadFromDisk).
THEOREM ThreeMapsAgree == Spec => []MapsAgree
<1>1. GraphInv => MapsAgree
  BY DEF GraphInv
<1> QED
  BY <1>1, GraphInvariant, PTL

\* Every file is the node table and the edge table of one moment (Persist).
THEOREM EveryFileIsAGraph == Spec => []FilesAreGraphs
<1>1. GraphInv => FilesAreGraphs
  BY DEF GraphInv
<1> QED
  BY <1>1, GraphInvariant, PTL

\* Nothing that is not saved is lost by a restart (Persist, loadFromDisk).
THEOREM ASnapshotIsEnough == Spec => []SnapshotIsEnough
<1>1. GraphInv => SnapshotIsEnough
  <2> SUFFICES ASSUME GraphInv, up
               PROVE  LoadedNodes(Snapshot) = nodes /\ LoadedAdj(Snapshot) = adj
    BY DEF SnapshotIsEnough
  <2> DEFINE made == LoadedAdj(Snapshot)
  <2>1. /\ Snapshot.nodes = nodes /\ Snapshot.edges = edges
        /\ nodes \in [Ids -> Attrs \union {Bare, None}]
        /\ edges \in [EdgeKeys -> Edge \union {None}]
        /\ Fits(nodes, edges)
    BY DEF Snapshot, GraphInv, TypeOK, MapsAgree
  <2>2. /\ LoadedNodes(Snapshot) = nodes
        /\ made \in [Ids -> {None} \union SUBSET Ids]
        /\ \A i \in Ids : nodes[i] = None <=> made[i] = None
        /\ \A i, j \in Ids : j \in Neighbours(made, i) <=>
             i # j /\ edges[EdgeKey(i, j)] # None
    BY <2>1, LoadMakesGraph
  <2>3. adj \in [Ids -> {None} \union SUBSET Ids]
    BY DEF GraphInv, TypeOK
  <2>4. ASSUME NEW i \in Ids
        PROVE  made[i] = adj[i]
    <3>1. made[i] = None <=> adj[i] = None
      BY <2>2 DEF GraphInv, MapsAgree
    <3>2. \A j \in Ids : j \in Neighbours(made, i) <=> j \in Neighbours(adj, i)
      BY <2>2 DEF GraphInv, MapsAgree
    <3>3. Neighbours(made, i) \subseteq Ids /\ Neighbours(adj, i) \subseteq Ids
      BY <2>2, <2>3 DEF Neighbours
    <3>4. Neighbours(made, i) = Neighbours(adj, i)
      BY <3>2, <3>3
    <3> QED
      BY <3>1, <3>4 DEF Neighbours
  <2>5. made = adj
    BY <2>2, <2>3, <2>4
  <2> QED
    BY <2>2, <2>5
<1> QED
  BY <1>1, GraphInvariant, PTL

-----------------------------------------------------------------------------
(* Refinement: the store is a durable map of nodes and edges.              *)

\* The abstract saver's snapshot, and what the lemmas below say of a step.
Saving == [s \in {"persist"} |->
             IF saving = None THEN None ELSE TablesOf(saving)]
Memory == IF up THEN TablesOf(Snapshot) ELSE Down

LEMMA TablesAreMap ==
  ASSUME NEW f \in Tables
  PROVE  /\ TablesOf(f) \in Abstract!Maps
         /\ TablesOf(f) # None /\ TablesOf(f) # Down
<1>1. TablesOf(f) \in [Ids \union EdgeKeys -> Values \union {None}]
  BY KeysAreApart DEF TablesOf, Tables, Values
<1> QED
  BY <1>1, NoneAndDownAreApart DEF Abstract!Maps

LEMMA MemoryIsMap ==
  ASSUME GraphInv, up
  PROVE  Memory \in Abstract!Maps /\ Memory # Down /\ Memory # None
<1>1. Snapshot \in Tables
  BY DEF Snapshot, Tables, GraphInv, TypeOK
<1> QED
  BY <1>1, TablesAreMap DEF Memory

LEMMA InitImplements == Init => Abstract!Init
BY NoneAndDownAreApart
   DEF Init, Abstract!Init, Abstract!Empty, TablesOf, Snapshot, File, EmptyFile,
       NoNodes, NoEdges

\* A call that loses no record is a Put.
LEMMA GrowthIsPut ==
  ASSUME GraphInv, GraphInv', up, up', UNCHANGED <<saving, disk>>,
         \A i \in Ids : nodes[i] # None => nodes'[i] # None,
         \A k \in EdgeKeys : edges[k] # None => edges'[k] # None
  PROVE  Abstract!Put
<1>1. Memory # Down /\ Memory' \in Abstract!Maps
  BY MemoryIsMap, Snapshot' \in Tables, TablesAreMap
  DEF Memory, Snapshot, Tables, GraphInv, TypeOK
<1>2. \A k \in Ids \union EdgeKeys : Memory[k] # None => Memory'[k] # None
  BY DEF Memory, TablesOf, Snapshot
<1>3. File' = File /\ Saving' = Saving
  BY DEF File, Saving
<1> QED
  BY <1>1, <1>2, <1>3 DEF Abstract!Put, Memory, Saving

LEMMA CallImplements ==
  ASSUME GraphInv, GraphInv',
         \/ \E e \in Entities : UpsertNode(e)
         \/ \E r \in Relations : UpsertEdge(r)
  PROVE  Abstract!Put
<1>1. ASSUME NEW e \in Entities, UpsertNode(e)
      PROVE  Abstract!Put
  <2>1. e.name \in Ids /\ e.attr # None
    BY <1>1, Inputs, NoneIsNoValue DEF UpsertNode
  <2>2. \A i \in Ids : nodes[i] # None => nodes'[i] # None
    BY <1>1, <2>1 DEF UpsertNode, GraphInv, TypeOK
  <2> QED
    BY <1>1, <2>2, GrowthIsPut DEF UpsertNode
<1>2. ASSUME NEW r \in Relations, UpsertEdge(r)
      PROVE  Abstract!Put
  <2>1. r # None
    BY <1>2, AcceptedEnds DEF UpsertEdge
  <2>2. \A i \in Ids : nodes[i] # None => nodes'[i] # None
    BY <1>2, NoneIsNoValue DEF UpsertEdge, WithEnds
  <2>3. \A k \in EdgeKeys : edges[k] # None => edges'[k] # None
    BY <1>2, <2>1 DEF UpsertEdge, GraphInv, TypeOK
  <2> QED
    BY <1>2, <2>2, <2>3, GrowthIsPut DEF UpsertEdge
<1> QED
  BY <1>1, <1>2

LEMMA SaveImplements ==
  ASSUME GraphInv, PersistSnapshot \/ PersistRename \/ PersistFails
  PROVE  \E s \in {"persist"} :
           Abstract!BeginSave(s) \/ Abstract!EndSave(s) \/ Abstract!AbortSave(s)
<1>1. UNCHANGED <<up, graph>> /\ Memory' = Memory
  BY DEF PersistSnapshot, PersistRename, PersistFails, Memory, Snapshot, graph
<1>2. saving # None => saving \in Tables /\ TablesOf(saving) # None
  BY TablesAreMap DEF GraphInv, TypeOK
<1>3. CASE PersistSnapshot
  <2>1. Snapshot \in Tables /\ Snapshot # None
    BY NoneAndDownAreApart DEF Snapshot, Tables, GraphInv, TypeOK
  <2>2. Saving["persist"] = None /\ File' = File
    BY <1>3 DEF PersistSnapshot, Saving, File
  <2>3. Saving' = [Saving EXCEPT !["persist"] = Memory]
    BY <1>3, <2>1 DEF PersistSnapshot, Saving, Memory
  <2>4. Memory # Down
    BY <1>3, MemoryIsMap DEF PersistSnapshot
  <2> QED
    BY <1>1, <2>2, <2>3, <2>4 DEF Abstract!BeginSave, Saving, Memory
<1>4. CASE PersistRename
  <2>1. Saving["persist"] # None /\ Saving' = [Saving EXCEPT !["persist"] = None]
    BY <1>2, <1>4 DEF PersistRename, Saving
  <2>2. TablesOf(File') = Saving["persist"]
    BY <1>4 DEF PersistRename, Saving, File
  <2> QED
    BY <1>1, <2>1, <2>2 DEF Abstract!EndSave, Saving, Memory
<1>5. CASE PersistFails
  <2>1. Saving["persist"] # None /\ Saving' = [Saving EXCEPT !["persist"] = None]
    BY <1>2, <1>5 DEF PersistFails, Saving
  <2>2. File' = File
    BY <1>5 DEF PersistFails, File
  <2> QED
    BY <1>1, <2>1, <2>2 DEF Abstract!AbortSave, Saving, Memory
<1> QED
  BY <1>3, <1>4, <1>5

LEMMA StepImplements ==
  ASSUME GraphInv, GraphInv', [Next]_vars
  PROVE  [Abstract!Next]_(Abstract!vars)
<1>1. CASE \/ \E e \in Entities : UpsertNode(e)
           \/ \E r \in Relations : UpsertEdge(r)
  BY <1>1, CallImplements DEF Abstract!Next
<1>2. CASE PersistSnapshot \/ PersistRename \/ PersistFails
  BY <1>2, SaveImplements DEF Abstract!Next
<1>3. CASE Crash
  <2>1. Memory # Down
    BY <1>3, MemoryIsMap DEF Crash
  <2>2. Memory' = Down /\ File' = File /\ Saving' = [s \in {"persist"} |-> None]
    BY <1>3 DEF Crash, Memory, File, Saving
  <2>3. Abstract!Stop
    BY <2>1, <2>2 DEF Abstract!Stop, Memory, Saving
  <2> QED
    BY <2>3 DEF Abstract!Next
<1>4. CASE Restart
  <2>1. nodes' = File.nodes /\ edges' = File.edges
    BY <1>4, FileIsGraph, LoadMakesGraph DEF Restart
  <2>2. Memory = Down /\ Memory' = TablesOf(File)
    BY <1>4, <2>1 DEF Restart, Memory, Snapshot, TablesOf
  <2>3. File' = File /\ Saving' = Saving
    BY <1>4 DEF Restart, File, Saving
  <2>4. Abstract!Start
    BY <2>2, <2>3 DEF Abstract!Start, Memory, Saving
  <2> QED
    BY <2>4 DEF Abstract!Next
<1>5. CASE UNCHANGED vars
  BY <1>5 DEF vars, graph, Abstract!vars, Snapshot, File
<1> QED
  BY <1>1, <1>2, <1>3, <1>4, <1>5 DEF Next

\* Each call, save, crash and start changes a durable map of nodes and edges
\* as a whole (AdjacencyGraph, all operations).
THEOREM GraphIsDurableMap == Spec => ImplementsDurableMap
BY GraphInvariant, InitImplements, StepImplements, PTL
   DEF Spec, ImplementsDurableMap, Abstract!Spec

-----------------------------------------------------------------------------
(***************************************************************************)
(* The vector index (CosineIndex).                                         *)
(***************************************************************************)

Kept == [id : RecordIds, vec : Vecs]
Files == [dim : Nat, data : Seq(Kept)]

Distinct(rs) == \A i, j \in DOMAIN rs : rs[i].id = rs[j].id => i = j

\* The positions p are those of the records rs.
Agree(rs, p) ==
  /\ \A i \in DOMAIN rs : p[rs[i].id] = i
  /\ \A id \in RecordIds : p[id] # 0 => p[id] \in DOMAIN rs /\ rs[p[id]].id = id

IndexTypeOK ==
  /\ indexUp \in BOOLEAN
  /\ recs \in Seq(Kept)
  /\ idIdx \in [RecordIds -> Nat]
  /\ dim \in Nat
  /\ \A f \in {indexSaving, indexDisk} \ {Missing} : f \in Files

\* Without a dimension there is no record, and a file repeats no id.
FilesAreLoadable ==
  /\ dim = 0 => recs = <<>>
  /\ \A f \in {indexSaving, indexDisk} \ {Missing} :
       Distinct(f.data) /\ (f.dim = 0 => f.data = <<>>)

IndexDownIsEmpty == ~indexUp => indexSaving = Missing

\* The inductive invariant.
IndexInv == IndexTypeOK /\ IndexAgrees /\ OneDimension /\ FilesAreLoadable /\ IndexDownIsEmpty

-----------------------------------------------------------------------------
(* Folds over a sequence.                                                  *)

\* The function FoldLeft computes with over the records of a batch.
StoreFold(ix, b, f) ==
  f = [s \in SUBSET DOMAIN b |->
         IF s = {} THEN ix ELSE Store(f[s \ {Max(s)}], b[Max(s)])]

LEMMA StoreFoldIs ==
  ASSUME NEW ix, NEW b
  PROVE  FoldLeft(Store, ix, b) = (CHOOSE f : StoreFold(ix, b, f))[DOMAIN b]
BY Zenon DEF FoldLeft, MapThenFoldSet, StoreFold

\* A set of indexes that Store does not leave holds what the batch makes.
LEMMA FoldStays ==
  ASSUME NEW b, NEW n \in Nat, DOMAIN b = 1..n, NEW V, NEW ix \in V,
         \A v \in V, k \in 1..n : Store(v, b[k]) \in V
  PROVE  FoldLeft(Store, ix, b) \in V
<1> DEFINE h == [k \in 1..n |-> [v \in V |-> Store(v, b[k])]]
<1>1. \A v \in V, k \in 1..n : h[k][v] = Store(v, b[k])
  OBVIOUS
<1>7. \A v \in V, k \in 1..n : h[k][v] \in V
  OBVIOUS
<1> HIDE DEF h
<1>2. PICK f \in [SUBSET (1..n) -> V] : Steps(n, V, ix, h, f)
  BY <1>7, IterationSteps
<1>3. StoreFold(ix, b, f)
  <2>1. \A s \in SUBSET (1..n) :
          f[s] = IF s = {} THEN ix ELSE Store(f[s \ {Max(s)}], b[Max(s)])
    BY <1>1, <1>2 DEF Steps
  <2> QED
    BY <1>2, <2>1 DEF StoreFold
<1> DEFINE g == CHOOSE q : StoreFold(ix, b, q)
<1>4. StoreFold(ix, b, g)
  BY <1>3
<1> HIDE DEF g
<1>5. Follows(n, V, ix, h, g)
  <2>1. \A s \in SUBSET (1..n) :
          g[s] = IF s = {} THEN ix ELSE Store(g[s \ {Max(s)}], b[Max(s)])
    BY <1>4 DEF StoreFold
  <2>2. ASSUME NEW s \in SUBSET (1..n), s # {}, g[s \ {Max(s)}] \in V
        PROVE  g[s] = h[Max(s)][g[s \ {Max(s)}]]
    <3>1. Max(s) \in 1..n
      BY <1>2, <2>2 DEF Steps
    <3> QED
      BY <1>1, <2>1, <2>2, <3>1
  <2> QED
    BY <2>1, <2>2 DEF Follows
<1>6. g[1..n] \in V
  <2>1. PICK a \in [0..n -> V] : Traces(n, ix, h, g, a)
    BY <1>5, <1>7, Trace
  <2> QED
    BY <2>1 DEF Traces
<1> QED
  BY <1>6, StoreFoldIs DEF g

-----------------------------------------------------------------------------
(* Upsert.                                                                 *)

\* A record that a batch may store into an index of dimension d.
Fit(rec, d) == rec \in Kept /\ rec.vec.len = d

\* The indexes a batch of vectors of length d can make of the positions p:
\* they agree, and no id that was there is gone.
Grown(d, p) ==
  {ix \in [recs : Seq(Kept), idIdx : [RecordIds -> Nat]] :
     /\ Agree(ix.recs, ix.idIdx)
     /\ \A i \in DOMAIN ix.recs : ix.recs[i].vec.len = d
     /\ \A id \in RecordIds : p[id] # 0 => ix.idIdx[id] # 0}

LEMMA StoreGrows ==
  ASSUME NEW d, NEW p, NEW ix \in Grown(d, p), NEW rec, Fit(rec, d)
  PROVE  Store(ix, rec) \in Grown(d, p)
<1>1. /\ ix \in [recs : Seq(Kept), idIdx : [RecordIds -> Nat]]
      /\ Agree(ix.recs, ix.idIdx)
      /\ \A i \in DOMAIN ix.recs : ix.recs[i].vec.len = d
      /\ \A id \in RecordIds : p[id] # 0 => ix.idIdx[id] # 0
  BY DEF Grown
<1>2. rec \in Kept /\ rec.id \in RecordIds /\ rec.vec.len = d
  BY DEF Fit, Kept
<1>3. PICK n \in Nat : n = Len(ix.recs) /\ DOMAIN ix.recs = 1..n
  BY <1>1
<1>4. CASE ix.idIdx[rec.id] # 0
  <2> DEFINE k == ix.idIdx[rec.id]
             rs == [ix.recs EXCEPT ![k] = rec]
  <2>1. k \in 1..n /\ ix.recs[k].id = rec.id
    BY <1>1, <1>2, <1>3, <1>4 DEF Agree
  <2>2. Store(ix, rec) = [recs |-> rs, idIdx |-> ix.idIdx]
    BY <1>1, <1>4 DEF Store
  <2>3. /\ rs \in Seq(Kept) /\ DOMAIN rs = 1..n
        /\ rs[k] = rec /\ \A i \in 1..n : i # k => rs[i] = ix.recs[i]
    BY <1>1, <1>2, <1>3, <2>1
  <2>4. \A i \in 1..n : rs[i].id = ix.recs[i].id
    BY <2>1, <2>3
  <2>5. \A i \in 1..n : rs[i].vec.len = d
    BY <1>1, <1>2, <1>3, <2>3
  <2> HIDE DEF rs, k
  <2>6. Agree(rs, ix.idIdx)
    BY <1>1, <1>3, <2>3, <2>4 DEF Agree
  <2> QED
    BY <1>1, <2>2, <2>3, <2>5, <2>6 DEF Grown
<1>5. CASE ix.idIdx[rec.id] = 0
  <2> DEFINE rs == Append(ix.recs, rec)
             q == [ix.idIdx EXCEPT ![rec.id] = n + 1]
  <2>1. Store(ix, rec) = [recs |-> rs, idIdx |-> q]
    BY <1>3, <1>5 DEF Store
  <2>2. /\ rs \in Seq(Kept) /\ DOMAIN rs = 1..(n + 1)
        /\ rs[n + 1] = rec /\ \A i \in 1..n : rs[i] = ix.recs[i]
    BY <1>1, <1>2, <1>3
  <2>3. /\ q \in [RecordIds -> Nat] /\ q[rec.id] = n + 1
        /\ \A id \in RecordIds : id # rec.id => q[id] = ix.idIdx[id]
    BY <1>1, <1>2
  <2> HIDE DEF rs, q
  <2>4. \A i \in 1..n : ix.recs[i] \in Kept
    BY <1>1, <1>3
  <2>11. \A i \in 1..n : ix.recs[i].id \in RecordIds
    BY <2>4 DEF Kept
  <2>12. \A i \in 1..n : ix.idIdx[ix.recs[i].id] = i /\ ix.recs[i].vec.len = d
    BY <1>1, <1>3 DEF Agree
  <2>5. \A i \in 1..n : rs[i].id # rec.id /\ q[rs[i].id] = i
    BY <1>5, <2>2, <2>3, <2>11, <2>12
  <2>6. \A i \in 1..(n + 1) : i \in 1..n \/ i = n + 1
    OBVIOUS
  <2>7. \A i \in 1..(n + 1) : q[rs[i].id] = i /\ rs[i].vec.len = d
    <3> SUFFICES ASSUME NEW i \in 1..(n + 1)
                 PROVE  q[rs[i].id] = i /\ rs[i].vec.len = d
      OBVIOUS
    <3>1. CASE i \in 1..n
      BY <2>2, <2>5, <2>12, <3>1
    <3>2. CASE i = n + 1
      BY <1>2, <2>2, <2>3, <3>2
    <3> QED
      BY <2>6, <3>1, <3>2
  <2>8. ASSUME NEW id \in RecordIds, q[id] # 0
        PROVE  q[id] \in 1..(n + 1) /\ rs[q[id]].id = id
    <3>1. CASE id = rec.id
      BY <2>2, <2>3, <3>1
    <3>2. CASE id # rec.id
      <4>1. ix.idIdx[id] \in 1..n /\ ix.recs[ix.idIdx[id]].id = id
        BY <1>1, <1>3, <2>3, <2>8, <3>2 DEF Agree
      <4> QED
        BY <2>2, <2>3, <3>2, <4>1
    <3> QED
      BY <3>1, <3>2
  <2>9. Agree(rs, q)
    BY <2>2, <2>7, <2>8 DEF Agree
  <2>10. \A id \in RecordIds : p[id] # 0 => q[id] # 0
    BY <1>1, <2>3
  <2>13. [recs |-> rs, idIdx |-> q] \in [recs : Seq(Kept), idIdx : [RecordIds -> Nat]]
    BY <2>2, <2>3
  <2>14. \A i \in DOMAIN rs : rs[i].vec.len = d
    BY <2>2, <2>7
  <2> QED
    BY <2>1, <2>9, <2>10, <2>13, <2>14 DEF Grown
<1> QED
  BY <1>4, <1>5

\* The part of a batch before the first record that is refused may be stored.
LEMMA AcceptedFit ==
  ASSUME NEW batch \in Batches, NEW d
  PROVE  \E n \in Nat : /\ DOMAIN Accepted(batch, d) = 1..n
                        /\ \A k \in 1..n : Fit(Accepted(batch, d)[k], d)
<1>1. PICK m \in Nat : batch \in [1..m -> Records]
  BY IndexConstants DEF Batches
<1> DEFINE refused == {i \in DOMAIN batch : batch[i].vec.len # d \/ batch[i].id = NoRecordId}
<1>2. ASSUME NEW i \in 1..m, i \notin refused
      PROVE  Fit(batch[i], d)
  BY <1>1, <1>2 DEF Records, Fit, Kept
<1>3. CASE refused = {}
  <2>1. Accepted(batch, d) = batch
    BY <1>3 DEF Accepted
  <2> QED
    BY <1>1, <1>2, <1>3, <2>1
<1>4. CASE refused # {}
  <2>1. refused \subseteq Nat
    BY <1>1
  <2>2. Min(refused) \in refused /\ \A y \in refused : Min(refused) <= y
    <3> HIDE DEF refused
    <3>1. \E x \in refused : \A y \in refused : x <= y
      BY <1>4, <2>1, LeastElement
    <3> QED
      BY <3>1 DEF Min
  <2>3. Accepted(batch, d) = SubSeq(batch, 1, Min(refused) - 1)
    BY <1>4 DEF Accepted
  <2>4. PICK r \in 1..m : r = Min(refused)
    BY <1>1, <2>2
  <2>5. \A k \in 1..(r - 1) : k \in 1..m /\ k \notin refused
    <3> HIDE DEF refused
    <3> QED
      BY <2>2, <2>4
  <2> HIDE DEF refused
  <2>6. batch \in Seq(Records) /\ Len(batch) = m /\ r - 1 \in Nat
    BY <1>1
  <2>7. /\ DOMAIN SubSeq(batch, 1, r - 1) = 1..(r - 1)
        /\ \A k \in 1..(r - 1) : SubSeq(batch, 1, r - 1)[k] = batch[k]
    BY <2>6
  <2> QED
    BY <1>2, <2>3, <2>4, <2>5, <2>6, <2>7
<1> QED
  BY <1>3, <1>4

LEMMA UpsertGrows ==
  ASSUME IndexInv, NEW batch \in Batches, Upsert(batch)
  PROVE  [recs |-> recs', idIdx |-> idIdx'] \in Grown(dim', idIdx)
<1> DEFINE b == Accepted(batch, Fixes(batch))
           ix == [recs |-> recs, idIdx |-> idIdx]
<1>1. PICK n \in Nat : DOMAIN b = 1..n /\ \A k \in 1..n : Fit(b[k], dim')
  BY AcceptedFit DEF Upsert
<1>2. \A i \in DOMAIN recs : recs[i].vec.len = dim'
  BY DEF IndexInv, OneDimension, FilesAreLoadable, Upsert, Fixes
<1>3. ix \in Grown(dim', idIdx)
  BY <1>2 DEF IndexInv, IndexTypeOK, IndexAgrees, Agree, Grown
<1>4. FoldLeft(Store, ix, b) \in Grown(dim', idIdx)
  <2> HIDE DEF b, ix
  <2> QED
    BY <1>1, <1>3, FoldStays, StoreGrows
<1>5. recs' = FoldLeft(Store, ix, b).recs /\ idIdx' = FoldLeft(Store, ix, b).idIdx
  BY DEF Upsert
<1> HIDE DEF b, ix
<1>6. FoldLeft(Store, ix, b) = [recs |-> recs', idIdx |-> idIdx']
  BY <1>4, <1>5 DEF Grown
<1> QED
  BY <1>4, <1>6

-----------------------------------------------------------------------------
(* Delete, and the positions.                                              *)

FilterFold(rs, keep, f) ==
  f = [s \in SUBSET DOMAIN rs |->
         IF s = {} THEN <<>>
         ELSE IF rs[Max(s)] \in keep THEN Append(f[s \ {Max(s)}], rs[Max(s)])
         ELSE f[s \ {Max(s)}]]

LEMMA FilterFoldIs ==
  ASSUME NEW rs, NEW keep
  PROVE  Filter(rs, keep) = (CHOOSE f : FilterFold(rs, keep, f))[DOMAIN rs]
BY Zenon DEF Filter, FoldLeft, MapThenFoldSet, FilterFold

\* The records v are those of the first k that are kept, each once.
Filtered(rs, keep, k, v) ==
  /\ v \in Seq(Kept)
  /\ Distinct(v)
  /\ \A i \in DOMAIN v : \E j \in 1..k : rs[j] = v[i] /\ rs[j] \in keep
  /\ \A j \in 1..k : rs[j] \in keep => \E i \in DOMAIN v : v[i] = rs[j]

LEMMA FilterStep ==
  ASSUME NEW rs \in Seq(Kept), Distinct(rs), NEW keep, NEW k \in Nat,
         NEW l \in DOMAIN rs, l = k + 1, NEW v, Filtered(rs, keep, k, v)
  PROVE  Filtered(rs, keep, l, IF rs[l] \in keep THEN Append(v, rs[l]) ELSE v)
<1>1. PICK n \in Nat : v \in Seq(Kept) /\ n = Len(v) /\ DOMAIN v = 1..n
  BY DEF Filtered
<1>2. /\ 1..l = 1..k \union {l} /\ l \notin 1..k /\ 1..l \subseteq DOMAIN rs
      /\ rs[l] \in Kept
  BY DEF Filtered
<1>3. CASE rs[l] \notin keep
  BY <1>2, <1>3 DEF Filtered
<1>4. CASE rs[l] \in keep
  <2> DEFINE w == Append(v, rs[l])
  <2>1. /\ w \in Seq(Kept) /\ DOMAIN w = 1..(n + 1)
        /\ w[n + 1] = rs[l] /\ \A i \in 1..n : w[i] = v[i]
    BY <1>1, <1>2
  <2> HIDE DEF w
  <2>2. 1..(n + 1) = 1..n \union {n + 1} /\ n + 1 \notin 1..n
    OBVIOUS
  <2>3. ASSUME NEW i \in 1..n
        PROVE  w[i].id # w[n + 1].id
    <3>1. PICK j \in 1..k : rs[j] = v[i]
      BY <1>1 DEF Filtered
    <3>2. j \in DOMAIN rs /\ j # l
      BY <1>2
    <3> QED
      BY <2>1, <3>1, <3>2 DEF Distinct
  <2>4. ASSUME NEW i \in 1..n, NEW j \in 1..n, w[i].id = w[j].id
        PROVE  i = j
    <3>1. v[i].id = v[j].id
      BY <2>1, <2>4
    <3> QED
      BY <1>1, <3>1 DEF Filtered, Distinct
  <2>5. Distinct(w)
    BY <2>1, <2>2, <2>3, <2>4 DEF Distinct
  <2>6. ASSUME NEW i \in DOMAIN w
        PROVE  \E j \in 1..l : rs[j] = w[i] /\ rs[j] \in keep
    <3>1. CASE i \in 1..n
      <4>1. PICK j \in 1..k : rs[j] = v[i] /\ rs[j] \in keep
        BY <1>1, <3>1 DEF Filtered
      <4> QED
        BY <1>2, <2>1, <3>1, <4>1
    <3>2. CASE i = n + 1
      BY <1>2, <1>4, <2>1, <3>2
    <3> QED
      BY <2>1, <2>2, <3>1, <3>2
  <2>7. ASSUME NEW j \in 1..l, rs[j] \in keep
        PROVE  \E i \in DOMAIN w : w[i] = rs[j]
    <3>1. CASE j \in 1..k
      <4>1. PICK i \in 1..n : v[i] = rs[j]
        BY <1>1, <2>7, <3>1 DEF Filtered
      <4> QED
        BY <2>1, <2>2, <4>1
    <3>2. CASE j = l
      BY <2>1, <2>2, <3>2
    <3> QED
      BY <1>2, <3>1, <3>2
  <2>8. Filtered(rs, keep, l, w)
    BY <2>1, <2>5, <2>6, <2>7 DEF Filtered
  <2> QED
    BY <1>4, <2>8 DEF w
<1> QED
  BY <1>3, <1>4

LEMMA FilterIs ==
  ASSUME NEW rs \in Seq(Kept), Distinct(rs), NEW keep, NEW n \in Nat, DOMAIN rs = 1..n
  PROVE  Filtered(rs, keep, n, Filter(rs, keep))
<1> DEFINE V == Seq(Kept)
           h == [k \in 1..n |-> [v \in V |->
                   IF rs[k] \in keep THEN Append(v, rs[k]) ELSE v]]
<1>1. \A k \in 1..n : rs[k] \in Kept
  OBVIOUS
<1>2. \A v \in V, k \in 1..n :
        h[k][v] = IF rs[k] \in keep THEN Append(v, rs[k]) ELSE v
  BY <1>1
<1>12. \A v \in V, k \in 1..n : h[k][v] \in V
  BY <1>1, <1>2
<1>3. <<>> \in V
  OBVIOUS
<1> HIDE DEF h, V
<1>4. PICK f \in [SUBSET (1..n) -> V] : Steps(n, V, <<>>, h, f)
  BY <1>3, <1>12, IterationSteps
<1>5. FilterFold(rs, keep, f)
  <2>1. \A s \in SUBSET (1..n) :
          f[s] = IF s = {} THEN <<>>
                 ELSE IF rs[Max(s)] \in keep THEN Append(f[s \ {Max(s)}], rs[Max(s)])
                 ELSE f[s \ {Max(s)}]
    BY <1>2, <1>4 DEF Steps
  <2> QED
    BY <1>4, <2>1 DEF FilterFold
<1> DEFINE g == CHOOSE q : FilterFold(rs, keep, q)
<1>6. FilterFold(rs, keep, g)
  BY <1>5
<1> HIDE DEF g
<1>7. Follows(n, V, <<>>, h, g)
  <2>1. \A s \in SUBSET (1..n) :
          g[s] = IF s = {} THEN <<>>
                 ELSE IF rs[Max(s)] \in keep THEN Append(g[s \ {Max(s)}], rs[Max(s)])
                 ELSE g[s \ {Max(s)}]
    BY <1>6 DEF FilterFold
  <2>2. ASSUME NEW s \in SUBSET (1..n), s # {}, g[s \ {Max(s)}] \in V
        PROVE  g[s] = h[Max(s)][g[s \ {Max(s)}]]
    <3>1. Max(s) \in 1..n
      BY <1>4, <2>2 DEF Steps
    <3> QED
      BY <1>2, <2>1, <2>2, <3>1
  <2> QED
    BY <2>1, <2>2 DEF Follows
<1>8. PICK a \in [0..n -> V] : Traces(n, <<>>, h, g, a)
  BY <1>3, <1>7, <1>12, Trace
<1> DEFINE S == {k \in Nat : k <= n => Filtered(rs, keep, k, a[k])}
<1>9. 0 \in S
  <2>1. 1..0 = {}
    OBVIOUS
  <2>2. a[0] \in Seq(Kept) /\ DOMAIN a[0] = {}
    BY <1>8 DEF Traces
  <2>3. Distinct(a[0])
    BY <2>2 DEF Distinct
  <2>4. Filtered(rs, keep, 0, a[0])
    BY <2>1, <2>2, <2>3 DEF Filtered
  <2> QED
    BY <2>4
<1>10. ASSUME NEW k \in Nat, k \in S
       PROVE  k + 1 \in S
  <2>1. ASSUME NEW l \in Nat, l = k + 1, l <= n
        PROVE  Filtered(rs, keep, l, a[l])
    <3>1. k \in 0..n /\ l \in 1..n /\ l - 1 = k /\ Filtered(rs, keep, k, a[k])
      BY <1>10, <2>1
    <3>2. a[k] \in V /\ a[l] = h[l][a[k]]
      BY <1>8, <3>1 DEF Traces
    <3>3. a[l] = IF rs[l] \in keep THEN Append(a[k], rs[l]) ELSE a[k]
      BY <1>2, <3>1, <3>2
    <3>4. l \in DOMAIN rs
      BY <3>1
    <3> HIDE DEF S
    <3>5. Filtered(rs, keep, l, IF rs[l] \in keep THEN Append(a[k], rs[l]) ELSE a[k])
      BY <2>1, <3>1, <3>4, FilterStep
    <3> QED
      BY <3>3, <3>5
  <2>2. k + 1 \in Nat
    OBVIOUS
  <2> QED
    BY <2>1, <2>2
<1>11. n \in S
  <2> HIDE DEF S
  <2>1. Nat \subseteq S
    BY <1>9, <1>10, InductionOnNat
  <2> QED
    BY <2>1
<1>13. a[n] = Filter(rs, keep)
  BY <1>8, FilterFoldIs DEF g, Traces
<1> QED
  BY <1>11, <1>13

\* Where ids are distinct, rebuildIndex finds each record at its place.
LEMMA RebuiltPositions ==
  ASSUME NEW rs \in Seq(Kept), Distinct(rs)
  PROVE  Positions(rs) \in [RecordIds -> Nat] /\ Agree(rs, Positions(rs))
<1>1. ASSUME NEW i \in DOMAIN rs
      PROVE  rs[i].id \in RecordIds /\ Positions(rs)[rs[i].id] = i
  <2> DEFINE at == {j \in DOMAIN rs : rs[j].id = rs[i].id}
  <2>4. rs[i] \in Kept /\ i \in Nat
    OBVIOUS
  <2>1. rs[i].id \in RecordIds /\ i \in Nat
    BY <2>4 DEF Kept
  <2>2. at = {i}
    BY DEF Distinct
  <2>3. Max({i}) = i
    BY <2>1 DEF Max
  <2> QED
    BY <2>1, <2>2, <2>3 DEF Positions
<1>2. ASSUME NEW id \in RecordIds, \A i \in DOMAIN rs : rs[i].id # id
      PROVE  Positions(rs)[id] = 0
  <2>1. {j \in DOMAIN rs : rs[j].id = id} = {}
    BY <1>2
  <2> QED
    BY <2>1 DEF Positions
<1>3. DOMAIN rs \subseteq Nat \ {0}
  OBVIOUS
<1>4. ASSUME NEW id \in RecordIds
      PROVE  /\ Positions(rs)[id] \in Nat
             /\ Positions(rs)[id] # 0 =>
                  Positions(rs)[id] \in DOMAIN rs /\ rs[Positions(rs)[id]].id = id
  <2>1. CASE \E i \in DOMAIN rs : rs[i].id = id
    BY <1>1, <1>3, <2>1
  <2>2. CASE ~ \E i \in DOMAIN rs : rs[i].id = id
    BY <1>2, <2>2
  <2> QED
    BY <2>1, <2>2
<1>5. Positions(rs) \in [RecordIds -> Nat]
  BY <1>4 DEF Positions
<1> QED
  BY <1>1, <1>4, <1>5 DEF Agree

\* RecordIds that agree with their positions are distinct.
LEMMA AgreeDistinct ==
  ASSUME NEW rs \in Seq(Kept), NEW p, Agree(rs, p)
  PROVE  Distinct(rs)
BY DEF Agree, Distinct

-----------------------------------------------------------------------------
(* Each operation keeps the invariant.                                     *)

LEMMA IndexInitInv == IndexInit => IndexInv
<1> SUFFICES ASSUME IndexInit PROVE IndexInv
  OBVIOUS
<1>1. recs = <<>> /\ DOMAIN recs = {} /\ {indexSaving, indexDisk} \ {Missing} = {}
  BY DEF IndexInit, Empty
<1>2. IndexTypeOK
  BY <1>1 DEF IndexInit, Empty, NoPositions, IndexTypeOK
<1> QED
  BY <1>1, <1>2 DEF IndexInit, Empty, NoPositions, IndexInv, IndexAgrees, OneDimension,
     FilesAreLoadable, IndexDownIsEmpty

LEMMA UpsertKeeps ==
  ASSUME IndexInv, NEW batch \in Batches, Upsert(batch)
  PROVE  IndexInv'
<1>1. /\ recs' \in Seq(Kept) /\ idIdx' \in [RecordIds -> Nat]
      /\ Agree(recs', idIdx')
      /\ \A i \in DOMAIN recs' : recs'[i].vec.len = dim'
  BY UpsertGrows DEF Grown
<1>2. indexUp' = indexUp /\ indexSaving' = indexSaving /\ indexDisk' = indexDisk /\ dim' # 0 /\ dim' = Fixes(batch)
  BY DEF Upsert
<1>3. dim' \in Nat
  <2>1. PICK m \in 1..MaxBatch : batch \in [1..m -> Records]
    BY DEF Batches
  <2>2. 1 \in 1..m
    BY IndexConstants
  <2>3. batch[1].vec \in Vecs
    BY <2>1, <2>2 DEF Records
  <2>4. batch[1].vec.len \in Nat
    BY <2>3, IndexConstants
  <2> QED
    BY <1>2, <2>4 DEF Fixes, IndexInv, IndexTypeOK
<1>4. IndexTypeOK'
  BY <1>1, <1>2, <1>3 DEF IndexInv, IndexTypeOK
<1>5. IndexAgrees'
  BY <1>1 DEF Agree, IndexAgrees
<1>6. ASSUME NEW f \in {indexSaving, indexDisk} \ {Missing}, indexUp, f.dim # 0
      PROVE  dim' = f.dim
  BY <1>2, <1>6 DEF IndexInv, OneDimension, Fixes
<1>7. OneDimension'
  BY <1>1, <1>2, <1>6 DEF IndexInv, OneDimension
<1>8. FilesAreLoadable' /\ IndexDownIsEmpty'
  BY <1>2 DEF IndexInv, FilesAreLoadable, IndexDownIsEmpty
<1> QED
  BY <1>4, <1>5, <1>7, <1>8 DEF IndexInv

LEMMA DeleteKeeps ==
  ASSUME IndexInv, NEW ids, Delete(ids)
  PROVE  IndexInv'
<1>1. PICK n \in Nat : recs \in Seq(Kept) /\ DOMAIN recs = 1..n
  BY DEF IndexInv, IndexTypeOK
<1>2. Distinct(recs)
  BY <1>1 DEF IndexInv, IndexAgrees, Distinct
<1>3. Filtered(recs, {r \in ToSet(recs) : r.id \notin ids}, n, recs')
  BY <1>1, <1>2, FilterIs DEF Delete, Survivors
<1>4. recs' \in Seq(Kept) /\ Distinct(recs')
  BY <1>3 DEF Filtered
<1>5. idIdx' \in [RecordIds -> Nat] /\ Agree(recs', idIdx')
  BY <1>4, RebuiltPositions DEF Delete
<1>6. indexUp' = indexUp /\ indexSaving' = indexSaving /\ indexDisk' = indexDisk /\ dim' = dim
  BY DEF Delete
<1>7. \A i \in DOMAIN recs' : \E j \in DOMAIN recs : recs[j] = recs'[i]
  BY <1>1, <1>3 DEF Filtered
<1>8. \A i \in DOMAIN recs' : recs'[i].vec.len = dim
  BY <1>7 DEF IndexInv, OneDimension
<1>9. dim = 0 => recs' = <<>>
  <2> SUFFICES ASSUME dim = 0 PROVE recs' = <<>>
    OBVIOUS
  <2>1. DOMAIN recs = {}
    BY DEF IndexInv, FilesAreLoadable
  <2>2. DOMAIN recs' = {}
    BY <1>7, <2>1
  <2> QED
    BY <1>4, <2>2
<1>10. IndexTypeOK'
  BY <1>4, <1>5, <1>6 DEF IndexInv, IndexTypeOK
<1>11. IndexAgrees'
  BY <1>5 DEF Agree, IndexAgrees
<1>12. OneDimension'
  BY <1>6, <1>8 DEF IndexInv, OneDimension
<1>13. FilesAreLoadable' /\ IndexDownIsEmpty'
  BY <1>6, <1>9 DEF IndexInv, FilesAreLoadable, IndexDownIsEmpty
<1> QED
  BY <1>10, <1>11, <1>12, <1>13 DEF IndexInv

LEMMA SaveKeeps ==
  ASSUME IndexInv, IndexSnapshot \/ IndexRename \/ IndexPersistFails
  PROVE  IndexInv'
<1>1. indexUp' = indexUp /\ recs' = recs /\ idIdx' = idIdx /\ dim' = dim
  BY DEF IndexSnapshot, IndexRename, IndexPersistFails, memVars
<1>2. Distinct(recs)
  BY AgreeDistinct DEF IndexInv, IndexTypeOK, IndexAgrees, Agree
<1>3. CASE IndexSnapshot
  <2> DEFINE f == [dim |-> dim, data |-> recs]
  <2>1. f \in Files /\ indexSaving' = f /\ indexDisk' = indexDisk /\ indexUp
    BY <1>3 DEF IndexSnapshot, Files, IndexInv, IndexTypeOK
  <2>2. /\ Distinct(f.data) /\ (f.dim = 0 => f.data = <<>>)
        /\ \A i \in DOMAIN f.data : f.data[i].vec.len = f.dim
        /\ f.dim = dim
    BY <1>2 DEF IndexInv, FilesAreLoadable, OneDimension
  <2> HIDE DEF f
  <2>3. IndexTypeOK'
    BY <1>1, <2>1 DEF IndexInv, IndexTypeOK
  <2>4. OneDimension'
    BY <1>1, <2>1, <2>2 DEF IndexInv, OneDimension
  <2>5. FilesAreLoadable'
    BY <1>1, <2>1, <2>2 DEF IndexInv, FilesAreLoadable
  <2> QED
    BY <1>1, <2>1, <2>3, <2>4, <2>5 DEF IndexInv, IndexAgrees, IndexDownIsEmpty
<1>4. CASE IndexRename \/ IndexPersistFails
  <2>1. indexSaving' = Missing /\ indexDisk' \in {indexSaving, indexDisk}
    BY <1>4 DEF IndexRename, IndexPersistFails
  <2>2. {indexSaving', indexDisk'} \ {Missing} \subseteq {indexSaving, indexDisk} \ {Missing}
    BY <2>1
  <2>3. IndexTypeOK'
    BY <1>1, <2>2 DEF IndexInv, IndexTypeOK
  <2>4. OneDimension'
    BY <1>1, <2>2 DEF IndexInv, OneDimension
  <2>5. FilesAreLoadable'
    BY <1>1, <2>2 DEF IndexInv, FilesAreLoadable
  <2> QED
    BY <1>1, <2>1, <2>3, <2>4, <2>5 DEF IndexInv, IndexAgrees, IndexDownIsEmpty
<1> QED
  BY <1>3, <1>4

LEMMA IndexCrashKeeps == IndexInv /\ IndexCrash => IndexInv'
<1> SUFFICES ASSUME IndexInv, IndexCrash PROVE IndexInv'
  OBVIOUS
<1>1. /\ recs' = <<>> /\ DOMAIN recs' = {} /\ dim' = 0 /\ indexUp' = FALSE
      /\ indexSaving' = Missing /\ indexDisk' = indexDisk /\ idIdx' = NoPositions
  BY DEF IndexCrash
<1>2. IndexTypeOK'
  <2>1. {indexSaving', indexDisk'} \ {Missing} \subseteq {indexSaving, indexDisk} \ {Missing}
    BY <1>1
  <2>2. <<>> \in Seq(Kept) /\ NoPositions \in [RecordIds -> Nat]
    BY DEF NoPositions
  <2> QED
    BY <1>1, <2>1, <2>2 DEF IndexInv, IndexTypeOK
<1>3. IndexAgrees'
  BY <1>1 DEF IndexAgrees, NoPositions
<1>4. OneDimension'
  BY <1>1 DEF IndexInv, OneDimension
<1>5. FilesAreLoadable' /\ IndexDownIsEmpty'
  BY <1>1 DEF IndexInv, FilesAreLoadable, IndexDownIsEmpty
<1> QED
  BY <1>2, <1>3, <1>4, <1>5 DEF IndexInv

LEMMA IndexRestartKeeps == IndexInv /\ IndexRestart => IndexInv'
<1> SUFFICES ASSUME IndexInv, IndexRestart PROVE IndexInv'
  OBVIOUS
<1>1. indexSaving = Missing /\ indexSaving' = Missing /\ indexDisk' = indexDisk /\ indexUp' = TRUE /\ idIdx' = Positions(recs')
  BY DEF IndexInv, IndexDownIsEmpty, IndexRestart
<1>2. /\ recs' \in Seq(Kept) /\ Distinct(recs') /\ dim' \in Nat
      /\ dim' = 0 => recs' = <<>>
      /\ \A i \in DOMAIN recs' : recs'[i].vec.len = dim'
      /\ indexDisk # Missing => dim' = indexDisk.dim
  <2>1. CASE indexDisk = Missing
    BY <2>1 DEF IndexRestart, Distinct
  <2>2. CASE indexDisk # Missing
    <3>1. indexDisk \in {indexSaving, indexDisk} \ {Missing} /\ recs' = indexDisk.data /\ dim' = indexDisk.dim
      BY <2>2 DEF IndexRestart
    <3>2. indexDisk.data \in Seq(Kept) /\ indexDisk.dim \in Nat
      BY <3>1 DEF IndexInv, IndexTypeOK, Files
    <3> QED
      BY <3>1, <3>2 DEF IndexInv, FilesAreLoadable, OneDimension
  <2> QED
    BY <2>1, <2>2
<1>3. idIdx' \in [RecordIds -> Nat] /\ Agree(recs', idIdx')
  BY <1>1, <1>2, RebuiltPositions
<1>4. IndexTypeOK'
  BY <1>1, <1>2, <1>3 DEF IndexInv, IndexTypeOK
<1>5. IndexAgrees'
  BY <1>3 DEF Agree, IndexAgrees
<1>6. OneDimension'
  BY <1>1, <1>2 DEF IndexInv, OneDimension
<1>7. FilesAreLoadable' /\ IndexDownIsEmpty'
  BY <1>1, <1>2 DEF IndexInv, FilesAreLoadable, IndexDownIsEmpty
<1> QED
  BY <1>4, <1>5, <1>6, <1>7 DEF IndexInv

LEMMA IndexStepInv ==
  ASSUME IndexInv, [IndexNext]_indexVars
  PROVE  IndexInv'
<1>1. CASE \E batch \in Batches : Upsert(batch)
  BY <1>1, UpsertKeeps
<1>2. CASE \E ids \in SUBSET RecordIds \ {{}} : Delete(ids)
  BY <1>2, DeleteKeeps
<1>3. CASE IndexSnapshot \/ IndexRename \/ IndexPersistFails
  BY <1>3, SaveKeeps
<1>4. CASE UNCHANGED indexVars
  BY <1>4 DEF indexVars, memVars, IndexInv, IndexTypeOK, IndexAgrees, OneDimension,
     FilesAreLoadable, IndexDownIsEmpty
<1> QED
  BY <1>1, <1>2, <1>3, <1>4, IndexCrashKeeps, IndexRestartKeeps DEF IndexNext

\* Types, positions, the one dimension and loadable files are kept by every
\* call, save, crash and start (CosineIndex, all operations).
THEOREM IndexInvariant == IndexSpec => []IndexInv
<1>1. IndexInit => IndexInv
  BY IndexInitInv
<1>2. IndexInv /\ [IndexNext]_indexVars => IndexInv'
  BY IndexStepInv
<1> QED
  BY <1>1, <1>2, PTL DEF IndexSpec

\* Position index and records agree after every batch, cut short or not,
\* deletion and load (Upsert, Delete, rebuildIndex, loadFromDisk).
THEOREM PositionsAgree == IndexSpec => []IndexAgrees
<1>1. IndexInv => IndexAgrees
  BY DEF IndexInv
<1> QED
  BY <1>1, IndexInvariant, PTL

\* One dimension for all vectors of the memory and of a file, which a start
\* takes over, deletions or not (Upsert, Persist, loadFromDisk).
THEOREM OneDimensionForAll == IndexSpec => []OneDimension
<1>1. IndexInv => OneDimension
  BY DEF IndexInv
<1> QED
  BY <1>1, IndexInvariant, PTL

-----------------------------------------------------------------------------
(* The index implements the durable map.                                   *)

Maps == [RecordIds -> Vecs \union {Missing}]
IndexMemory == IF indexUp THEN Contents(recs) ELSE IndexDown
IndexFile == IF indexDisk = Missing THEN Contents(<<>>) ELSE Contents(indexDisk.data)
IndexSnapshots == [s \in {"persist"} |-> IF indexSaving = Missing THEN Missing ELSE Contents(indexSaving.data)]

\* What a client sees of records with distinct ids.
LEMMA ContentsAre ==
  ASSUME NEW rs \in Seq(Kept), Distinct(rs)
  PROVE  /\ Contents(rs) \in Maps
         /\ \A i \in DOMAIN rs : rs[i].id \in RecordIds /\ Contents(rs)[rs[i].id] = rs[i].vec
         /\ \A id \in RecordIds : Contents(rs)[id] # Missing <=> \E i \in DOMAIN rs : rs[i].id = id
<1>1. ASSUME NEW i \in DOMAIN rs
      PROVE  /\ rs[i].id \in RecordIds /\ rs[i].vec \in Vecs /\ rs[i].vec # Missing
             /\ Contents(rs)[rs[i].id] = rs[i].vec
  <2> DEFINE at == {j \in DOMAIN rs : rs[j].id = rs[i].id}
  <2>1. rs[i] \in Kept /\ i \in Nat
    OBVIOUS
  <2>2. rs[i].id \in RecordIds /\ rs[i].vec \in Vecs /\ rs[i].vec # Missing
    BY <2>1, IndexConstants DEF Kept
  <2>3. at = {i}
    BY DEF Distinct
  <2>4. Max({i}) = i
    BY <2>1 DEF Max
  <2>5. Vector(rs, rs[i].id) = rs[i].vec
    BY <2>3, <2>4 DEF Vector
  <2> QED
    BY <2>2, <2>5 DEF Contents
<1>2. ASSUME NEW id \in RecordIds, \A i \in DOMAIN rs : rs[i].id # id
      PROVE  Contents(rs)[id] = Missing
  <2>1. {j \in DOMAIN rs : rs[j].id = id} = {}
    BY <1>2
  <2> QED
    BY <2>1 DEF Contents, Vector
<1>3. ASSUME NEW id \in RecordIds
      PROVE  /\ Contents(rs)[id] \in Vecs \union {Missing}
             /\ Contents(rs)[id] # Missing <=> \E i \in DOMAIN rs : rs[i].id = id
  <2>1. CASE \E i \in DOMAIN rs : rs[i].id = id
    BY <1>1, <2>1
  <2>2. CASE ~ \E i \in DOMAIN rs : rs[i].id = id
    BY <1>2, <2>2
  <2> QED
    BY <2>1, <2>2
<1>4. Contents(rs) \in Maps
  BY <1>3 DEF Contents, Maps
<1> QED
  BY <1>1, <1>3, <1>4

\* IndexMemory, snapshot and file are maps, and a map is neither Missing nor IndexDown.
LEMMA StateIsMaps ==
  ASSUME IndexInv
  PROVE  /\ indexUp => Contents(recs) \in Maps
         /\ \A f \in {indexSaving, indexDisk} \ {Missing} : Contents(f.data) \in Maps
         /\ Missing \notin Maps /\ IndexDown \notin Maps
<1>1. Contents(recs) \in Maps
  BY AgreeDistinct, ContentsAre DEF IndexInv, IndexTypeOK, IndexAgrees, Agree
<1>2. ASSUME NEW f \in {indexSaving, indexDisk} \ {Missing}
      PROVE  Contents(f.data) \in Maps
  <2>1. f \in Files /\ Distinct(f.data)
    BY DEF IndexInv, IndexTypeOK, FilesAreLoadable
  <2>2. f.data \in Seq(Kept)
    BY <2>1 DEF Files
  <2> QED
    BY <2>1, <2>2, ContentsAre
<1> QED
  BY <1>1, <1>2, IndexConstants DEF Maps

LEMMA IndexInitImplements ==
  ASSUME IndexInit
  PROVE  AbstractIndex!Init
<1>1. Contents(<<>>) = [id \in RecordIds |-> Missing]
  BY DEF Contents, Vector
<1> QED
  BY <1>1 DEF IndexInit, Empty, AbstractIndex!Init, AbstractIndex!Empty

LEMMA UpsertIsPut ==
  ASSUME IndexInv, IndexInv', NEW batch \in Batches, Upsert(batch)
  PROVE  AbstractIndex!Put
<1>1. indexUp /\ indexUp' /\ indexSaving' = indexSaving /\ indexDisk' = indexDisk
  BY DEF Upsert
<1>2. IndexMemory # IndexDown /\ IndexMemory = Contents(recs) /\ IndexMemory' = Contents(recs')
  BY <1>1, StateIsMaps DEF IndexMemory
<1>3. /\ recs \in Seq(Kept) /\ Agree(recs, idIdx) /\ Distinct(recs)
      /\ recs' \in Seq(Kept) /\ Agree(recs', idIdx') /\ Distinct(recs')
      /\ \A id \in RecordIds : idIdx[id] # 0 => idIdx'[id] # 0
  <2>1. \A id \in RecordIds : idIdx[id] # 0 => idIdx'[id] # 0
    BY UpsertGrows DEF Grown
  <2>2. recs \in Seq(Kept) /\ recs' \in Seq(Kept)
    BY DEF IndexInv, IndexTypeOK
  <2>3. Agree(recs, idIdx) /\ Agree(recs', idIdx')
    BY DEF IndexInv, IndexAgrees, Agree
  <2> QED
    BY <2>1, <2>2, <2>3, AgreeDistinct
<1>4. ASSUME NEW id \in RecordIds, Contents(recs)[id] # Missing
      PROVE  Contents(recs')[id] # Missing
  <2>1. PICK i \in DOMAIN recs : recs[i].id = id
    BY <1>3, <1>4, ContentsAre
  <2>2. idIdx[id] = i /\ i # 0
    BY <1>3, <2>1 DEF Agree
  <2>3. idIdx'[id] \in DOMAIN recs' /\ recs'[idIdx'[id]].id = id
    BY <1>3, <2>2 DEF Agree
  <2> QED
    BY <1>3, <2>3, ContentsAre
<1>5. Contents(recs') \in Maps
  BY <1>3, ContentsAre
<1>6. IndexFile' = IndexFile /\ IndexSnapshots' = IndexSnapshots
  BY <1>1 DEF IndexFile, IndexSnapshots
<1> QED
  BY <1>2, <1>4, <1>5, <1>6
  DEF AbstractIndex!Put, AbstractIndex!Maps, Maps, IndexMemory, IndexFile, IndexSnapshots

LEMMA DeleteIsRemove ==
  ASSUME IndexInv, IndexInv', NEW ids \in SUBSET RecordIds, Delete(ids)
  PROVE  AbstractIndex!Remove
<1>1. indexUp /\ indexUp' /\ indexSaving' = indexSaving /\ indexDisk' = indexDisk
  BY DEF Delete
<1>2. IndexMemory # IndexDown /\ IndexMemory = Contents(recs) /\ IndexMemory' = Contents(recs')
  BY <1>1, StateIsMaps DEF IndexMemory
<1>3. PICK n \in Nat : recs \in Seq(Kept) /\ DOMAIN recs = 1..n
  BY DEF IndexInv, IndexTypeOK
<1>4. Distinct(recs)
  BY <1>3 DEF IndexInv, IndexAgrees, Distinct
<1> DEFINE keep == {r \in ToSet(recs) : r.id \notin ids}
<1>5. Filtered(recs, keep, n, recs') /\ recs' \in Seq(Kept) /\ Distinct(recs')
  <2>1. recs' = Filter(recs, keep)
    BY DEF Delete, Survivors
  <2> HIDE DEF keep
  <2>2. Filtered(recs, keep, n, Filter(recs, keep))
    BY <1>3, <1>4, FilterIs
  <2> QED
    BY <2>1, <2>2 DEF Filtered
<1>9. \A j \in DOMAIN recs : recs[j] \in keep <=> recs[j].id \notin ids
  BY DEF ToSet
<1> HIDE DEF keep
<1>6. ASSUME NEW id \in RecordIds
      PROVE  Contents(recs')[id] = IF id \in ids THEN Missing ELSE Contents(recs)[id]
  <2>1. CASE \E i \in DOMAIN recs' : recs'[i].id = id
    <3>1. PICK i \in DOMAIN recs' : recs'[i].id = id
      BY <2>1
    <3>2. PICK j \in DOMAIN recs : recs[j] = recs'[i] /\ recs[j].id \notin ids
      BY <1>3, <1>5, <1>9 DEF Filtered
    <3>3. Contents(recs')[id] = recs'[i].vec /\ Contents(recs)[id] = recs[j].vec
      BY <1>3, <1>4, <1>5, <3>1, <3>2, ContentsAre
    <3> QED
      BY <3>1, <3>2, <3>3
  <2>2. CASE ~ \E i \in DOMAIN recs' : recs'[i].id = id
    <3>1. Contents(recs')[id] = Missing
      BY <1>5, <2>2, ContentsAre
    <3>2. ASSUME id \notin ids
          PROVE  Contents(recs)[id] = Missing
      <4>1. ~ \E j \in DOMAIN recs : recs[j].id = id
        BY <1>3, <1>5, <1>9, <2>2, <3>2 DEF Filtered
      <4> QED
        BY <1>3, <1>4, <4>1, ContentsAre
    <3> QED
      BY <3>1, <3>2
  <2> QED
    BY <2>1, <2>2
<1>7. Contents(recs') = AbstractIndex!Without(Contents(recs), ids)
  BY <1>6 DEF Contents, AbstractIndex!Without
<1>8. IndexFile' = IndexFile /\ IndexSnapshots' = IndexSnapshots
  BY <1>1 DEF IndexFile, IndexSnapshots
<1> QED
  BY <1>2, <1>7, <1>8 DEF AbstractIndex!Remove, IndexMemory, IndexFile, IndexSnapshots

LEMMA IndexSaveImplements ==
  ASSUME IndexInv, IndexSnapshot \/ IndexRename \/ IndexPersistFails
  PROVE  \E s \in {"persist"} :
           AbstractIndex!BeginSave(s) \/ AbstractIndex!EndSave(s) \/ AbstractIndex!AbortSave(s)
<1>1. indexUp' = indexUp /\ IndexMemory' = IndexMemory
  BY DEF IndexSnapshot, IndexRename, IndexPersistFails, IndexMemory, memVars
<1>2. indexSaving # Missing => Contents(indexSaving.data) # Missing
  BY StateIsMaps
<1>3. CASE IndexSnapshot
  <2> DEFINE f == [dim |-> dim, data |-> recs]
  <2>1. f \in Files /\ f # Missing
    BY IndexConstants DEF Files, IndexInv, IndexTypeOK, Kept
  <2>2. IndexSnapshots["persist"] = Missing /\ IndexFile' = IndexFile /\ indexUp
    BY <1>3 DEF IndexSnapshot, IndexSnapshots, IndexFile
  <2>3. indexSaving' = f /\ f.data = recs
    BY <1>3 DEF IndexSnapshot
  <2> HIDE DEF f
  <2>4. IndexSnapshots' = [IndexSnapshots EXCEPT !["persist"] = IndexMemory]
    BY <2>1, <2>2, <2>3 DEF IndexSnapshots, IndexMemory
  <2>5. IndexMemory # IndexDown
    BY <2>2, StateIsMaps DEF IndexMemory
  <2> QED
    BY <1>1, <2>2, <2>4, <2>5 DEF AbstractIndex!BeginSave, IndexSnapshots, IndexMemory, IndexFile
<1>4. CASE IndexRename
  <2>1. IndexSnapshots["persist"] # Missing /\ IndexSnapshots' = [IndexSnapshots EXCEPT !["persist"] = Missing]
    BY <1>2, <1>4 DEF IndexRename, IndexSnapshots
  <2>2. IndexFile' = IndexSnapshots["persist"]
    BY <1>4 DEF IndexRename, IndexSnapshots, IndexFile
  <2> QED
    BY <1>1, <2>1, <2>2 DEF AbstractIndex!EndSave, IndexSnapshots, IndexMemory, IndexFile
<1>5. CASE IndexPersistFails
  <2>1. IndexSnapshots["persist"] # Missing /\ IndexSnapshots' = [IndexSnapshots EXCEPT !["persist"] = Missing]
    BY <1>2, <1>5 DEF IndexPersistFails, IndexSnapshots
  <2>2. IndexFile' = IndexFile
    BY <1>5 DEF IndexPersistFails, IndexFile
  <2> QED
    BY <1>1, <2>1, <2>2 DEF AbstractIndex!AbortSave, IndexSnapshots, IndexMemory, IndexFile
<1> QED
  BY <1>3, <1>4, <1>5

LEMMA IndexStepImplements ==
  ASSUME IndexInv, IndexInv', [IndexNext]_indexVars
  PROVE  [AbstractIndex!Next]_(AbstractIndex!vars)
<1>1. CASE \E batch \in Batches : Upsert(batch)
  BY <1>1, UpsertIsPut DEF AbstractIndex!Next
<1>2. CASE \E ids \in SUBSET RecordIds \ {{}} : Delete(ids)
  BY <1>2, DeleteIsRemove DEF AbstractIndex!Next
<1>3. CASE IndexSnapshot \/ IndexRename \/ IndexPersistFails
  BY <1>3, IndexSaveImplements DEF AbstractIndex!Next
<1>4. CASE IndexCrash
  <2>1. IndexMemory # IndexDown
    BY <1>4, StateIsMaps DEF IndexCrash, IndexMemory
  <2>2. IndexMemory' = IndexDown /\ IndexFile' = IndexFile /\ IndexSnapshots' = [s \in {"persist"} |-> Missing]
    BY <1>4 DEF IndexCrash, IndexMemory, IndexFile, IndexSnapshots
  <2>3. AbstractIndex!Stop
    BY <2>1, <2>2 DEF AbstractIndex!Stop, IndexMemory, IndexFile, IndexSnapshots
  <2> QED
    BY <2>3 DEF AbstractIndex!Next
<1>5. CASE IndexRestart
  <2>1. IndexMemory = IndexDown /\ IndexMemory' = IndexFile /\ IndexFile' = IndexFile /\ IndexSnapshots' = IndexSnapshots
    BY <1>5 DEF IndexRestart, IndexMemory, IndexFile, IndexSnapshots
  <2>2. AbstractIndex!Start
    BY <2>1 DEF AbstractIndex!Start, IndexMemory, IndexFile, IndexSnapshots
  <2> QED
    BY <2>2 DEF AbstractIndex!Next
<1>6. CASE UNCHANGED indexVars
  BY <1>6 DEF indexVars, memVars, AbstractIndex!vars
<1> QED
  BY <1>1, <1>2, <1>3, <1>4, <1>5, <1>6 DEF IndexNext

\* Each batch, deletion, save, crash and start changes a durable map from ids
\* to vectors as a whole (CosineIndex, all operations).
THEOREM IndexIsDurableMap == IndexSpec => IndexImplementsDurableMap
<1>1. IndexInit => AbstractIndex!Init
  BY IndexInitImplements
<1>2. IndexInv /\ IndexInv' /\ [IndexNext]_indexVars => [AbstractIndex!Next]_(AbstractIndex!vars)
  BY IndexStepImplements
<1> QED
  BY <1>1, <1>2, IndexInvariant, PTL DEF IndexSpec, IndexImplementsDurableMap, AbstractIndex!Spec
-----------------------------------------------------------------------------
(* A query answers the best part of the map.                               *)

LEMMA BetterIsAnOrder ==
  ASSUME NEW p \in Kept, NEW q \in Kept, NEW r \in Kept
  PROVE  /\ ~Better(p, p)
         /\ Better(p, q) /\ Better(q, r) => Better(p, r)
         /\ p.id # q.id => Better(p, q) \/ Better(q, p)
<1>1. \A t \in {p, q, r} : t.id \in RecordIds /\ t.vec.score \in Int /\ Before[t.id] \in Int
  BY IndexConstants DEF Kept
<1>2. p.id # q.id => Before[p.id] # Before[q.id]
  BY <1>1, IndexConstants
<1> QED
  BY <1>1, <1>2 DEF Better

\* The place of a hit is one after the number of better ones: the hits have
\* as many places, and no two the same.
LEMMA OrderExists ==
  ASSUME NEW n \in Nat, NEW h, \A i \in 1..n : h[i] \in Kept,
         \A i, j \in 1..n : h[i].id = h[j].id => i = j
  PROVE  \E p \in Bijection(1..n, 1..n) :
           \A i, j \in 1..n : i < j => Better(h[p[i]], h[p[j]])
<1> DEFINE Above(i) == {j \in 1..n : Better(h[j], h[i])}
           place == [i \in 1..n |-> Cardinality(Above(i)) + 1]
<1>1. IsFiniteSet(1..n) /\ Cardinality(1..n) = n
  BY FS_Interval
<1>2. ASSUME NEW i \in 1..n
      PROVE  /\ IsFiniteSet(Above(i)) /\ Cardinality(Above(i)) \in Nat
             /\ Cardinality(Above(i)) < n
  <2>1. i \notin Above(i)
    BY BetterIsAnOrder
  <2>2. Above(i) \in SUBSET (1..n) /\ Above(i) # 1..n
    BY <2>1
  <2> HIDE DEF Above
  <2>3. /\ IsFiniteSet(Above(i)) /\ Cardinality(Above(i)) <= n
        /\ Cardinality(Above(i)) # n
    BY <1>1, <2>2, FS_Subset
  <2>4. Cardinality(Above(i)) \in Nat
    BY <2>3, FS_CardinalityType
  <2> QED
    BY <2>3, <2>4
<1>3. ASSUME NEW i \in 1..n, NEW j \in 1..n, Better(h[i], h[j])
      PROVE  place[i] < place[j]
  <2>1. i \in Above(j) /\ i \notin Above(i)
    BY <1>3, BetterIsAnOrder
  <2>2. \A k \in Above(i) : k \in Above(j)
    BY <1>3, BetterIsAnOrder
  <2>3. Above(i) \in SUBSET Above(j) /\ Above(i) # Above(j)
    BY <2>1, <2>2
  <2>4. place[i] = Cardinality(Above(i)) + 1 /\ place[j] = Cardinality(Above(j)) + 1
    OBVIOUS
  <2>5. /\ IsFiniteSet(Above(j))
        /\ Cardinality(Above(i)) \in Nat /\ Cardinality(Above(j)) \in Nat
    BY <1>2
  <2> HIDE DEF Above, place
  <2>6. /\ Cardinality(Above(i)) <= Cardinality(Above(j))
        /\ Cardinality(Above(i)) # Cardinality(Above(j))
    BY <2>3, <2>5, FS_Subset
  <2> QED
    BY <2>4, <2>5, <2>6
<1>4. place \in [1..n -> 1..n]
  <2>1. \A i \in 1..n : Cardinality(Above(i)) + 1 \in 1..n
    <3> HIDE DEF Above
    <3> QED
      BY <1>2
  <2> HIDE DEF Above
  <2> QED
    BY <2>1
<1> HIDE DEF place, Above
<1>5. \A i, j \in 1..n : place[i] = place[j] => i = j
  <2> SUFFICES ASSUME NEW i \in 1..n, NEW j \in 1..n, i # j
               PROVE  place[i] # place[j]
    OBVIOUS
  <2>1. Better(h[i], h[j]) \/ Better(h[j], h[i])
    BY BetterIsAnOrder
  <2>2. place[i] \in 1..n /\ place[j] \in 1..n
    BY <1>4
  <2> QED
    BY <1>3, <2>1, <2>2
<1>6. place \in Injection(1..n, 1..n)
  BY <1>4, <1>5 DEF Injection, IsInjective
<1>7. place \in Surjection(1..n, 1..n)
  BY <1>1, <1>6, FS_Injection
<1> DEFINE p == [k \in 1..n |-> CHOOSE i \in 1..n : place[i] = k]
<1>8. \A k \in 1..n : p[k] \in 1..n /\ place[p[k]] = k
  BY <1>7 DEF Surjection
<1>9. \A i \in 1..n : p[place[i]] = i
  BY <1>4, <1>5, <1>8
<1>10. p \in [1..n -> 1..n]
  BY <1>8
<1> HIDE DEF p
<1>11. p \in Bijection(1..n, 1..n)
  BY <1>4, <1>8, <1>9, <1>10 DEF Bijection, Injection, IsInjective, Surjection
<1>12. ASSUME NEW i \in 1..n, NEW j \in 1..n, i < j
       PROVE  Better(h[p[i]], h[p[j]])
  <2>1. p[i] \in 1..n /\ p[j] \in 1..n /\ place[p[i]] = i /\ place[p[j]] = j
    BY <1>8
  <2>2. ~Better(h[p[j]], h[p[i]])
    BY <1>3, <1>12, <2>1
  <2>3. p[i] # p[j]
    BY <1>12, <2>1
  <2> QED
    BY <2>1, <2>2, <2>3, BetterIsAnOrder
<1> QED
  BY <1>11, <1>12

LEMMA SortedIs ==
  ASSUME NEW n \in Nat, NEW hits \in Seq(Kept), DOMAIN hits = 1..n, Distinct(hits)
  PROVE  /\ Sorted(hits) \in Seq(Kept) /\ DOMAIN Sorted(hits) = 1..n
         /\ \A i, j \in 1..n : i < j => Better(Sorted(hits)[i], Sorted(hits)[j])
         /\ \A i \in 1..n : \E j \in 1..n : Sorted(hits)[i] = hits[j]
         /\ \A j \in 1..n : \E i \in 1..n : Sorted(hits)[i] = hits[j]
<1> DEFINE InOrder(p) == \A i, j \in 1..n : i < j => ~Better(hits[p[j]], hits[p[i]])
           order == CHOOSE p \in Bijection(1..n, 1..n) : InOrder(p)
<1>1. \A i \in 1..n : hits[i] \in Kept
  OBVIOUS
<1>2. \E p \in Bijection(1..n, 1..n) : InOrder(p)
  <2>1. \A i, j \in 1..n : hits[i].id = hits[j].id => i = j
    BY DEF Distinct
  <2>2. PICK p \in Bijection(1..n, 1..n) :
          \A i, j \in 1..n : i < j => Better(hits[p[i]], hits[p[j]])
    BY <1>1, <2>1, OrderExists
  <2>3. ASSUME NEW i \in 1..n, NEW j \in 1..n, i < j
        PROVE  ~Better(hits[p[j]], hits[p[i]])
    <3>1. p[i] \in 1..n /\ p[j] \in 1..n
      BY DEF Bijection, Injection
    <3> QED
      BY <1>1, <2>2, <2>3, <3>1, BetterIsAnOrder
  <2> QED
    BY <2>2, <2>3
<1>3. order \in Bijection(1..n, 1..n) /\ InOrder(order)
  BY <1>2
<1>4. Sorted(hits) = [i \in 1..n |-> hits[order[i]]]
  BY DEF Sorted
<1> HIDE DEF order
<1>5. /\ \A i \in 1..n : order[i] \in 1..n
      /\ \A i, j \in 1..n : order[i] = order[j] => i = j
      /\ \A j \in 1..n : \E i \in 1..n : order[i] = j
  BY <1>3 DEF Bijection, Injection, IsInjective, Surjection
<1>6. Sorted(hits) \in [1..n -> Kept]
  BY <1>1, <1>4, <1>5
<1>7. ASSUME NEW i \in 1..n, NEW j \in 1..n, i < j
      PROVE  Better(Sorted(hits)[i], Sorted(hits)[j])
  <2>1. order[i] \in 1..n /\ order[j] \in 1..n /\ order[i] # order[j]
    BY <1>5, <1>7
  <2>2. hits[order[i]].id # hits[order[j]].id
    BY <2>1 DEF Distinct
  <2>3. ~Better(hits[order[j]], hits[order[i]])
    BY <1>3, <1>7
  <2>4. Better(hits[order[i]], hits[order[j]])
    BY <1>1, <2>1, <2>2, <2>3, BetterIsAnOrder
  <2> QED
    BY <1>4, <2>4
<1>8. ASSUME NEW j \in 1..n
      PROVE  \E i \in 1..n : Sorted(hits)[i] = hits[j]
  <2>1. PICK i \in 1..n : order[i] = j
    BY <1>5
  <2> QED
    BY <1>4, <2>1
<1>9. ASSUME NEW i \in 1..n
      PROVE  \E j \in 1..n : Sorted(hits)[i] = hits[j]
  BY <1>4, <1>5
<1>10. Sorted(hits) \in Seq(Kept) /\ DOMAIN Sorted(hits) = 1..n
  BY <1>6
<1> HIDE DEF InOrder
<1> QED
  BY <1>7, <1>8, <1>9, <1>10

LEMMA CountedById ==
  ASSUME NEW n \in Nat, NEW hits, DOMAIN hits = 1..n, Distinct(hits)
  PROVE  Cardinality({hits[i].id : i \in 1..n}) = n
<1> DEFINE f == [i \in 1..n |-> hits[i].id]
           S == {hits[i].id : i \in 1..n}
<1>1. f \in [1..n -> S] /\ \A i, j \in 1..n : f[i] = f[j] => i = j
  BY DEF Distinct
<1>2. \A t \in S : \E i \in 1..n : f[i] = t
  OBVIOUS
<1> HIDE DEF f, S
<1>3. f \in Bijection(1..n, S)
  BY <1>1, <1>2 DEF Bijection, Injection, IsInjective, Surjection
<1>4. ExistsBijection(1..n, S)
  BY <1>3 DEF ExistsBijection
<1> QED
  BY <1>4, FS_CountingElements DEF S

LEMMA QueryAnswers ==
  ASSUME IndexInv
  PROVE  QueryAnswersMap
<1> SUFFICES ASSUME NEW topK \in 1..(Len(recs) + 1), NEW threshold \in Scores
             PROVE  LET hits == Query(topK, threshold)
                        found == {hits[i].id : i \in DOMAIN hits}
                        fit == {id \in RecordIds :
                                  /\ Contents(recs)[id] # Missing
                                  /\ Contents(recs)[id].score >= threshold}
                        As(id) == [id |-> id, vec |-> Contents(recs)[id]]
                    IN  /\ Len(hits) = IF topK < Cardinality(fit) THEN topK ELSE Cardinality(fit)
                        /\ found \subseteq fit
                        /\ \A i \in DOMAIN hits : hits[i] = As(hits[i].id)
                        /\ \A i, j \in DOMAIN hits : i < j => Better(hits[i], hits[j])
                        /\ \A id \in fit \ found, i \in DOMAIN hits : Better(hits[i], As(id))
  BY DEF QueryAnswersMap
<1> DEFINE keep == {r \in ToSet(recs) : r.vec.score >= threshold}
           hs == Hits(threshold)
           fit == {id \in RecordIds : Contents(recs)[id] # Missing
                                      /\ Contents(recs)[id].score >= threshold}
           As(id) == [id |-> id, vec |-> Contents(recs)[id]]
<1>1. PICK n \in Nat : recs \in Seq(Kept) /\ DOMAIN recs = 1..n /\ n = Len(recs)
  BY DEF IndexInv, IndexTypeOK
<1>2. Distinct(recs)
  BY <1>1 DEF IndexInv, IndexAgrees, Distinct
<1>3. Filtered(recs, keep, n, hs)
  <2> HIDE DEF keep
  <2>1. hs = Filter(recs, keep)
    BY DEF Hits, keep
  <2> QED
    BY <1>1, <1>2, <2>1, FilterIs
<1>4. \A j \in 1..n : recs[j] \in keep <=> recs[j].vec.score >= threshold
  BY <1>1 DEF ToSet
<1> HIDE DEF keep, hs
<1>5. PICK m \in Nat : hs \in Seq(Kept) /\ Distinct(hs) /\ DOMAIN hs = 1..m /\ m = Len(hs)
  BY <1>3 DEF Filtered
<1>6. ASSUME NEW i \in 1..m
      PROVE  hs[i].id \in fit /\ hs[i] = As(hs[i].id)
  <2>1. PICK j \in 1..n : recs[j] = hs[i] /\ recs[j] \in keep
    BY <1>3, <1>5 DEF Filtered
  <2>2. /\ recs[j].id \in RecordIds /\ Contents(recs)[recs[j].id] = recs[j].vec
        /\ Contents(recs)[recs[j].id] # Missing
    BY <1>1, <1>2, ContentsAre
  <2>4. recs[j] \in Kept
    BY <1>1
  <2>3. recs[j] = [id |-> recs[j].id, vec |-> recs[j].vec]
    BY <2>4 DEF Kept
  <2> QED
    BY <1>4, <2>1, <2>2, <2>3
<1>7. ASSUME NEW id \in fit
      PROVE  \E i \in 1..m : hs[i] = As(id) /\ hs[i].id = id
  <2>1. PICK j \in 1..n : recs[j].id = id
    BY <1>1, <1>2, ContentsAre
  <2>2. Contents(recs)[id] = recs[j].vec
    BY <1>1, <1>2, <2>1, ContentsAre
  <2>3. PICK i \in 1..m : hs[i] = recs[j]
    BY <1>3, <1>4, <1>5, <2>2 DEF Filtered
  <2> QED
    BY <1>6, <2>1, <2>3
<1>8. Cardinality(fit) = m
  <2>1. fit = {hs[i].id : i \in 1..m}
    <3>1. \A id \in fit : id \in {hs[i].id : i \in 1..m}
      BY <1>7
    <3>2. \A id \in {hs[i].id : i \in 1..m} : id \in fit
      BY <1>6
    <3> HIDE DEF fit
    <3> QED
      BY <3>1, <3>2
  <2> HIDE DEF fit
  <2> QED
    BY <1>5, <2>1, CountedById
<1> DEFINE s == Sorted(hs)
           c == IF topK < m THEN topK ELSE m
           hits == Query(topK, threshold)
<1>9. /\ s \in Seq(Kept) /\ DOMAIN s = 1..m
      /\ \A i, j \in 1..m : i < j => Better(s[i], s[j])
      /\ \A i \in 1..m : \E j \in 1..m : s[i] = hs[j]
      /\ \A j \in 1..m : \E i \in 1..m : s[i] = hs[j]
  BY <1>5, SortedIs
<1>10. c \in 0..m /\ (c = m \/ c < m) /\ c = IF topK < Cardinality(fit) THEN topK ELSE Cardinality(fit)
  <2> HIDE DEF fit
  <2> QED
    BY <1>8
<1>11. hits = SubSeq(s, 1, c)
  BY <1>5 DEF Query, hs
<1> HIDE DEF s, c, hits, fit
<1>12. Len(hits) = c /\ DOMAIN hits = 1..c /\ \A i \in 1..c : hits[i] = s[i]
  <2>1. c \in Nat /\ c <= m /\ \A i \in 1..c : i \in DOMAIN s
    BY <1>9, <1>10
  <2>2. SubSeq(s, 1, c) = [i \in 1..c |-> s[i]]
    BY <1>9, <2>1
  <2> QED
    BY <1>11, <2>1, <2>2
<1>13. ASSUME NEW i \in DOMAIN hits
       PROVE  i \in 1..m /\ hits[i] = s[i] /\ hits[i].id \in fit /\ hits[i] = As(hits[i].id)
  <2>1. i \in 1..m /\ hits[i] = s[i]
    BY <1>10, <1>12
  <2>2. PICK j \in 1..m : s[i] = hs[j]
    BY <1>9, <2>1
  <2> QED
    BY <1>6, <2>1, <2>2
<1>14. \A i, j \in DOMAIN hits : i < j => Better(hits[i], hits[j])
  BY <1>9, <1>13
<1>15. ASSUME NEW id \in fit \ {hits[i].id : i \in DOMAIN hits}, NEW i \in DOMAIN hits
       PROVE  Better(hits[i], As(id))
  <2>1. PICK k \in 1..m : hs[k] = As(id) /\ hs[k].id = id
    BY <1>7
  <2>2. PICK j \in 1..m : s[j] = hs[k]
    BY <1>9
  <2>3. j \notin 1..c
    BY <1>12, <1>15, <2>1, <2>2
  <2>4. i \in 1..c /\ i \in 1..m /\ i < j
    BY <1>10, <1>12, <2>3
  <2>5. Better(s[i], s[j])
    BY <1>9, <2>4
  <2>6. s[i] = hits[i] /\ s[j] = As(id)
    BY <1>12, <2>1, <2>2, <2>4
  <2> HIDE DEF As
  <2> QED
    BY <2>5, <2>6
<1>16. {hits[i].id : i \in DOMAIN hits} \subseteq fit
  BY <1>13
<1> QED
  BY <1>10, <1>12, <1>13, <1>14, <1>15, <1>16 DEF hits, fit

\* A query gives what a map from ids to vectors would, best first with the
\* order of the ids among equals, and cuts nothing better than what it gives
\* (Query, for every topK and threshold).
THEOREM QueriesAnswerMap == IndexSpec => []QueryAnswersMap
BY IndexInvariant, QueryAnswers, PTL

=============================================================================
