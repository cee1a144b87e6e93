---------------------------- MODULE SubgraphBFS ----------------------------
(***************************************************************************)
(* The walk that GetSubgraph of s08 makes over the graph                   *)
(* (subgraph_bfs.go): breadth first from a seed, each level in descending  *)
(* order of degree, cut at a depth and at a number of nodes.  The read     *)
(* lock is held for the whole walk, so the graph does not change under it; *)
(* AdjacencyGraph shows that its maps agree, and here they are one         *)
(* symmetric adjacency.                                                    *)
(***************************************************************************)
EXTENDS Integers, Sequences, FiniteSets, SequencesExt, Functions

CONSTANTS
  Ids,         \* entity names
  Rank,        \* names in string order
  MaxDepth,    \* bound: the largest maxDepth a caller gives
  MaxNodes     \* bound: the largest maxNodes a caller gives

ASSUME IdsAreFinite == IsFiniteSet(Ids)
ASSUME RankIsAnOrder == /\ Rank \in [Ids -> Nat]
                        /\ \A x, y \in Ids : Rank[x] = Rank[y] => x = y
ASSUME BoundsAreNumbers == MaxDepth \in Nat /\ MaxNodes \in Nat

VARIABLES
  nodes, adj,                \* the graph
  seed, maxDepth, maxNodes,  \* the call
  at,                        \* where the walk is
  depth,                     \* the level being expanded
  order,                     \* bfsOrder: the nodes visited, in order
  frontier,                  \* the nodes of that level
  cands,                     \* nextCandidates not admitted yet
  next                       \* nextFrontier

input == <<nodes, adj, seed, maxDepth, maxNodes>>
vars == <<input, at, depth, order, frontier, cands, next>>

IsGraph(ns, a) ==
  \A i, j \in Ids : j \in a[i] => i # j /\ i \in a[j] /\ i \in ns /\ j \in ns

Init ==
  /\ nodes \in SUBSET Ids
  /\ adj \in [Ids -> SUBSET Ids]
  /\ IsGraph(nodes, adj)
  /\ seed \in Ids
  /\ maxDepth \in -1..MaxDepth
  /\ maxNodes \in 0..MaxNodes
  /\ at = "start" /\ depth = 0
  /\ order = <<>> /\ frontier = {} /\ cands = {} /\ next = {}

-----------------------------------------------------------------------------
visited == Range(order)
Full == Len(order) >= maxNodes
Degree(i) == Cardinality(adj[i])

\* Mutant: among nodes of one level the name decides.
ByName(i, j) == Rank[i] < Rank[j]

\* Descending by degree, a tie by name.
Before(i, j) ==
  \/ Degree(i) > Degree(j)
  \/ Degree(i) = Degree(j) /\ Rank[i] < Rank[j]

\* A degenerate call and an unknown seed give an empty subgraph.
Degenerate == maxNodes <= 0 \/ maxDepth < 0 \/ seed \notin nodes

ReturnEmpty ==
  /\ at = "start"
  /\ Degenerate
  /\ at' = "done"
  /\ UNCHANGED <<input, depth, order, frontier, cands, next>>

Begin ==
  /\ at = "start"
  /\ ~Degenerate
  /\ at' = "level"
  /\ order' = <<seed>>
  /\ frontier' = {seed}
  /\ UNCHANGED <<input, depth, cands, next>>

\* Mutant: one level too many.
MoreDeeper == depth <= maxDepth /\ ~Full /\ frontier # {}

More == depth < maxDepth /\ ~Full /\ frontier # {}

\* Mutant: nodes visited at an earlier level are collected again.
CollectVisited ==
  /\ at = "level"
  /\ More
  /\ at' = "admit"
  /\ cands' = (UNION {adj[p] : p \in frontier}) \ frontier
  /\ next' = {}
  /\ UNCHANGED <<input, depth, order, frontier>>

Collect ==
  /\ at = "level"
  /\ More
  /\ at' = "admit"
  /\ cands' = (UNION {adj[p] : p \in frontier}) \ visited
  /\ next' = {}
  /\ UNCHANGED <<input, depth, order, frontier>>

\* The loop over the sorted candidates: the first of those that are left.
Admit ==
  /\ at = "admit"
  /\ ~Full
  /\ \E n \in cands :
       /\ \A m \in cands \ {n} : Before(n, m)
       /\ order' = Append(order, n)
       /\ next' = next \union {n}
       /\ cands' = cands \ {n}
  /\ UNCHANGED <<input, at, depth, frontier>>

\* Mutant: the level ends when its candidates do, also when the budget is
\* spent before.
NextLevelWhenEmpty ==
  /\ at = "admit"
  /\ cands = {}
  /\ at' = "level"
  /\ frontier' = next
  /\ depth' = depth + 1
  /\ UNCHANGED <<input, order, cands, next>>

NextLevel ==
  /\ at = "admit"
  /\ Full \/ cands = {}
  /\ at' = "level"
  /\ frontier' = next
  /\ depth' = depth + 1
  /\ UNCHANGED <<input, order, cands, next>>

Return ==
  /\ at = "level"
  /\ ~More
  /\ at' = "done"
  /\ UNCHANGED <<input, depth, order, frontier, cands, next>>

Walk == ReturnEmpty \/ Begin \/ Collect \/ Admit \/ NextLevel \/ Return

\* The call has returned.
Stay == at = "done" /\ UNCHANGED vars

Next == Walk \/ Stay

\* A running function keeps running.
Spec == Init /\ [][Next]_vars /\ WF_vars(Walk)

\* The result: the visited nodes and every edge with both ends among them.
SubgraphEdges ==
  {e \in SUBSET visited : \E i, j \in visited : j \in adj[i] /\ e = {i, j}}

-----------------------------------------------------------------------------
(* Reference: balls around the seed.                                       *)

Ball(k) ==
  LET B[n \in 0..k] == IF n = 0 THEN {seed}
                       ELSE B[n - 1] \union UNION {adj[i] : i \in B[n - 1]}
  IN  B[k]

Sphere(k) == IF k = 0 THEN {seed} ELSE Ball(k) \ Ball(k - 1)

\* At most maxNodes nodes come out, none of them twice, all of them nodes of
\* the graph, and each but the seed next to one that came before it: the
\* subgraph is connected and its edges do not dangle, wherever the budget cut
\* the walk (Subgraph, graph_store.go).
VisitedOnceAndConnected ==
  /\ Len(order) <= maxNodes
  /\ visited \subseteq nodes
  /\ \A k, l \in DOMAIN order : order[k] = order[l] => k = l
  /\ \A k \in DOMAIN order : k > 1 =>
       \E l \in 1..(k - 1) : {order[k], order[l]} \in SubgraphEdges

\* The walk fills its budget with the nodes nearest to the seed: what it
\* leaves out within maxDepth is no nearer than what it returns.
NearestWithinBudget ==
  at = "done" /\ ~Degenerate =>
    /\ visited \subseteq Ball(maxDepth)
    /\ Len(order) < maxNodes => visited = Ball(maxDepth)
    /\ \A k \in 0..maxDepth :
         ~(Sphere(k) \subseteq visited) => visited \subseteq Ball(k)

\* On the level where the budget ends the nodes of the highest degree stay,
\* over all parents of the level and not per parent.
DegreeDecides ==
  at = "done" /\ ~Degenerate =>
    \A k \in 1..maxDepth :
      \A i \in Sphere(k) \intersect visited, j \in Sphere(k) \ visited :
        Degree(i) >= Degree(j)

\* The walk ends, on a graph with cycles too.
Terminates == <>(at = "done")
=============================================================================
