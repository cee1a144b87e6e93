--------------------------- MODULE AdjacencyGraph ---------------------------
(***************************************************************************)
(* The graph store of s08 (adjacency_graph.go): entities, relationships    *)
(* and adjacency in three maps under one RWMutex, flushed to one file that *)
(* holds the first two.  Every operation is one critical section.  A save  *)
(* is the snapshot and then the rename or a failure; AtomicFile shows what *)
(* lies between.  The walk over the graph is in SubgraphBFS.               *)
(***************************************************************************)
EXTENDS Integers, FiniteSets

CONSTANTS
  Ids,         \* entity names
  NoId,        \* the empty name
  Rank,        \* names in string order: Rank[i] is the place of i
  Attrs,       \* type, description and sources of an entity or relationship
  Bare,        \* those of an entity created as an endpoint
  Entities,    \* what UpsertNode is called with
  Relations,   \* what UpsertEdge is called with
  None,        \* not in the map; no snapshot; no file
  Down         \* the process is not running

ASSUME NoIdIsNoId == NoId \notin Ids
ASSUME RankIsAnOrder == /\ Rank \in [Ids -> Nat]
                        /\ \A x, y \in Ids : Rank[x] = Rank[y] => x = y
ASSUME Inputs ==
  /\ Entities \subseteq [name : Ids \union {NoId}, attr : Attrs]
  /\ Relations \subseteq [src : Ids \union {NoId}, tgt : Ids \union {NoId}, attr : Attrs]

\* An edge is known by its endpoints, the smaller one first.
EdgeKeys == {k \in Ids \X Ids : Rank[k[1]] < Rank[k[2]]}
Edge == [src : Ids, tgt : Ids, attr : Attrs]

ASSUME NoneIsNoValue == /\ None \notin Attrs \union {Bare} \union Edge
                        /\ \A s \in SUBSET Ids : s # None
ASSUME KeysAreApart == Ids \intersect EdgeKeys = {}

\* The two tables of a file, and the one map they amount to.
Tables == [nodes : [Ids -> Attrs \union {Bare, None}],
           edges : [EdgeKeys -> Edge \union {None}]]
Values == Attrs \union {Bare} \union Edge
TablesOf(f) ==
  [k \in Ids \union EdgeKeys |-> IF k \in Ids THEN f.nodes[k] ELSE f.edges[k]]

ASSUME NoneAndDownAreApart ==
  /\ None \notin Tables
  /\ {None, Down} \intersect [Ids \union EdgeKeys -> Values \union {None}] = {}

VARIABLES
  up,       \* the process runs
  nodes,    \* Name -> attributes
  edges,    \* edge key -> relationship
  adj,      \* Name -> neighbours
  saving,   \* the snapshot a Persist is about to rename, or None
  disk      \* the canonical file, or None

graph == <<nodes, edges, adj>>
vars == <<up, graph, saving, disk>>

NoNodes == [i \in Ids |-> None]
NoEdges == [k \in EdgeKeys |-> None]

Init ==
  /\ up = TRUE
  /\ nodes = NoNodes /\ edges = NoEdges /\ adj = NoNodes
  /\ saving = None /\ disk = None

-----------------------------------------------------------------------------
EdgeKey(src, tgt) ==
  IF Rank[src] < Rank[tgt] THEN <<src, tgt>> ELSE <<tgt, src>>

\* newEdgeKey rejects an empty endpoint and a self-loop.
IsEdge(r) == r.src # NoId /\ r.tgt # NoId /\ r.src # r.tgt
Ends(r) == {r.src, r.tgt}

\* The endpoints that are not known yet become bare nodes.
WithEnds(ns, ends) ==
  [i \in Ids |-> IF i \in ends /\ ns[i] = None THEN Bare ELSE ns[i]]

Neighbours(a, i) == IF a[i] = None THEN {} ELSE a[i]

UpsertNode(e) ==
  /\ up
  /\ e.name # NoId
  /\ nodes' = [nodes EXCEPT ![e.name] = e.attr]
  /\ adj' = [adj EXCEPT ![e.name] = Neighbours(adj, e.name)]
  /\ UNCHANGED <<up, edges, saving, disk>>

\* Mutant: only the source learns of its neighbour.
UpsertEdgeOneWay(r) ==
  /\ up
  /\ IsEdge(r)
  /\ nodes' = WithEnds(nodes, Ends(r))
  /\ adj' = [i \in Ids |-> IF i = r.src THEN Neighbours(adj, i) \union {r.tgt}
                           ELSE IF i = r.tgt THEN Neighbours(adj, i) ELSE adj[i]]
  /\ edges' = [edges EXCEPT ![EdgeKey(r.src, r.tgt)] = r]
  /\ UNCHANGED <<up, saving, disk>>

UpsertEdge(r) ==
  /\ up
  /\ IsEdge(r)
  /\ nodes' = WithEnds(nodes, Ends(r))
  /\ adj' = [i \in Ids |-> IF i \in Ends(r)
                           THEN Neighbours(adj, i) \union (Ends(r) \ {i})
                           ELSE adj[i]]
  /\ edges' = [edges EXCEPT ![EdgeKey(r.src, r.tgt)] = r]
  /\ UNCHANGED <<up, saving, disk>>

-----------------------------------------------------------------------------
Snapshot == [nodes |-> nodes, edges |-> edges]

PersistSnapshot ==
  /\ up
  /\ saving = None
  /\ saving' = Snapshot
  /\ UNCHANGED <<up, graph, disk>>

\* Mutant: the nodes are those of the snapshot, the edges those of now.
PersistRenameLive ==
  /\ saving # None
  /\ disk' = [saving EXCEPT !.edges = edges]
  /\ saving' = None
  /\ UNCHANGED <<up, graph>>

PersistRename ==
  /\ saving # None
  /\ disk' = saving
  /\ saving' = None
  /\ UNCHANGED <<up, graph>>

PersistFails ==
  /\ saving # None
  /\ saving' = None
  /\ UNCHANGED <<up, graph, disk>>

Crash ==
  /\ up
  /\ up' = FALSE
  /\ nodes' = NoNodes /\ edges' = NoEdges /\ adj' = NoNodes
  /\ saving' = None
  /\ UNCHANGED disk

-----------------------------------------------------------------------------
(* loadFromDisk: the nodes of the file, the endpoints its edges name, and  *)
(* an adjacency made from the edges.                                       *)

Stored(f) == {f.edges[k] : k \in EdgeKeys} \ {None}
LoadedNodes(f) == WithEnds(f.nodes, UNION {Ends(r) : r \in Stored(f)})

EdgesAt(f, i) == {j \in Ids \ {i} : \E r \in Stored(f) : Ends(r) = {i, j}}

\* Mutant: a node without an edge gets no adjacency entry.
ConnectedAdj(f) ==
  [i \in Ids |-> IF EdgesAt(f, i) = {} THEN None ELSE EdgesAt(f, i)]

LoadedAdj(f) ==
  [i \in Ids |-> IF LoadedNodes(f)[i] = None THEN None ELSE EdgesAt(f, i)]

EmptyFile == [nodes |-> NoNodes, edges |-> NoEdges]
File == IF disk = None THEN EmptyFile ELSE disk

Restart ==
  /\ ~up
  /\ up' = TRUE
  /\ nodes' = LoadedNodes(File)
  /\ edges' = File.edges
  /\ adj' = LoadedAdj(File)
  /\ UNCHANGED <<saving, disk>>

Next ==
  \/ \E e \in Entities : UpsertNode(e)
  \/ \E r \in Relations : UpsertEdge(r)
  \/ PersistSnapshot \/ PersistRename \/ PersistFails
  \/ Crash \/ Restart

Spec == Init /\ [][Next]_vars

-----------------------------------------------------------------------------
TypeOK ==
  /\ up \in BOOLEAN
  /\ nodes \in [Ids -> Attrs \union {Bare, None}]
  /\ edges \in [EdgeKeys -> Edge \union {None}]
  /\ adj \in [Ids -> {None} \union SUBSET Ids]
  /\ {saving, disk} \subseteq Tables \union {None}

\* A table of nodes and a table of edges that fit: each edge lies under the
\* key of its endpoints, and those are nodes.
Fits(ns, es) ==
  \A k \in EdgeKeys : es[k] # None =>
    /\ Ends(es[k]) = {k[1], k[2]}
    /\ ns[k[1]] # None /\ ns[k[2]] # None

\* The three maps agree: a node is known exactly if it has an adjacency entry,
\* two nodes are neighbours, of each other, exactly if an edge is filed under
\* their key, and no edge dangles (adjacency_graph.go, the comment on the type).
MapsAgree ==
  /\ Fits(nodes, edges)
  /\ \A i \in Ids : (nodes[i] = None) <=> (adj[i] = None)
  /\ \A i, j \in Ids : j \in Neighbours(adj, i) <=>
       i # j /\ edges[EdgeKey(i, j)] # None

\* Every file, written or about to be, is a graph: a node table and an edge
\* table of one and the same moment.
FilesAreGraphs ==
  \A f \in {saving, disk} \ {None} : Fits(f.nodes, f.edges)

\* What is not saved can be made again: a start from a snapshot of this
\* moment would bring back all three maps as they are, the adjacency and the
\* isolated nodes included.
SnapshotIsEnough ==
  up => /\ LoadedNodes(Snapshot) = nodes
        /\ LoadedAdj(Snapshot) = adj

\* The store implements one durable map, of nodes and of edges: a call, a
\* save, a crash and a start each change both tables as a whole.
Abstract ==
  INSTANCE DurableMap WITH
    Keys <- Ids \union EdgeKeys,
    Vals <- Values,
    Savers <- {"persist"},
    mem <- IF up THEN TablesOf(Snapshot) ELSE Down,
    disk <- TablesOf(File),
    saving <- [s \in {"persist"} |->
                 IF saving = None THEN None ELSE TablesOf(saving)]
ImplementsDurableMap == Abstract!Spec
=============================================================================
