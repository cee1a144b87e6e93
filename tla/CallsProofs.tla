---------------------------- MODULE CallsProofs -----------------------------
(***************************************************************************)
(* Proofs about three calls that keep nothing: the walk over the graph     *)
(* (SubgraphBFS), a call to a remote API (RemoteCall) and the cutting of a *)
(* document into chunks (Chunking).  They hold for every graph, seed and   *)
(* budget, every number of texts and retries, and every text and chunk size. *)
(***************************************************************************)
EXTENDS SubgraphBFS, RemoteCall, Chunking, Induction, FiniteSetTheorems, TLAPS

-----------------------------------------------------------------------------
(***************************************************************************)
(* The walk: within the budget, without repetition, connected, nearest first. *)
(***************************************************************************)

TypeOK ==
  /\ nodes \in SUBSET Ids
  /\ adj \in [Ids -> SUBSET Ids]
  /\ IsGraph(nodes, adj)
  /\ seed \in Ids
  /\ maxDepth \in Int
  /\ maxNodes \in Nat
  /\ at \in {"start", "level", "admit", "done"}
  /\ depth \in Nat
  /\ order \in Seq(Ids)

\* What the walk is about to visit lies next to what it visited, and is new.
Fringe ==
  /\ at = "start" => order = <<>> /\ cands = {}
  /\ at \in {"level", "admit"} => ~Degenerate
  /\ frontier \subseteq visited
  /\ next \subseteq visited
  /\ at = "admit" =>
       \A n \in cands : n \in Ids /\ n \notin visited
                        /\ \E i \in visited : n \in adj[i]

\* The inductive invariant.
WalkInv == TypeOK /\ Fringe /\ VisitedOnceAndConnected

-----------------------------------------------------------------------------
\* A node visited at a later place joins the earlier ones by an edge when it
\* is a neighbour of one of them.
LEMMA AppendKeeps ==
  ASSUME TypeOK, VisitedOnceAndConnected, ~Full,
         NEW n \in Ids, n \notin visited, n \in nodes,
         order = <<>> \/ \E i \in visited : n \in adj[i],
         order' = Append(order, n), UNCHANGED input
  PROVE  /\ order' \in Seq(Ids)
         /\ visited' = visited \union {n}
         /\ VisitedOnceAndConnected'
<1>1. /\ order \in Seq(Ids) /\ Len(order) \in Nat
      /\ order' \in Seq(Ids) /\ Len(order') = Len(order) + 1
      /\ DOMAIN order = 1..Len(order) /\ DOMAIN order' = 1..(Len(order) + 1)
      /\ \A k \in 1..Len(order) : order'[k] = order[k]
      /\ order'[Len(order) + 1] = n
  BY DEF TypeOK
<1>2. visited = {order[k] : k \in 1..Len(order)}
  BY <1>1 DEF visited, Range
<1>3. visited' = {order'[k] : k \in 1..(Len(order) + 1)}
  BY <1>1 DEF visited, Range
<1>4. visited' = visited \union {n}
  BY <1>1, <1>2, <1>3
<1>5. Len(order') <= maxNodes'
  BY <1>1 DEF Full, input, TypeOK
<1>6. visited' \subseteq nodes'
  BY <1>4 DEF VisitedOnceAndConnected, input
<1>7. \A k, l \in DOMAIN order' : order'[k] = order'[l] => k = l
  BY <1>1, <1>2 DEF VisitedOnceAndConnected
<1>8. \A e \in SubgraphEdges : e \in SubgraphEdges'
  BY <1>4 DEF SubgraphEdges, input
<1>9. ASSUME NEW k \in 1..Len(order), k > 1
      PROVE  \E l \in 1..(k - 1) : {order'[k], order'[l]} \in SubgraphEdges'
  <2>1. PICK l \in 1..(k - 1) : {order[k], order[l]} \in SubgraphEdges
    BY <1>1, <1>9 DEF VisitedOnceAndConnected
  <2>2. l \in 1..Len(order)
    BY <1>1
  <2> QED
    BY <1>1, <1>8, <2>1, <2>2
<1>10. ASSUME Len(order) + 1 > 1
       PROVE  \E l \in 1..Len(order) : {n, order'[l]} \in SubgraphEdges'
  <2>1. order # <<>>
    BY <1>1, <1>10
  <2>2. PICK i \in visited : n \in adj[i]
    BY <2>1
  <2>3. PICK l \in 1..Len(order) : i = order[l]
    BY <1>2
  <2>4. i \in visited' /\ n \in visited' /\ n \in adj'[i]
    BY <1>4, <2>2 DEF input
  <2>5. {i, n} \in SubgraphEdges'
    BY <2>4 DEF SubgraphEdges
  <2> QED
    BY <1>1, <2>3, <2>5
<1>11. \A k \in DOMAIN order' : k > 1 =>
         \E l \in 1..(k - 1) : {order'[k], order'[l]} \in SubgraphEdges'
  <2> SUFFICES ASSUME NEW k \in 1..(Len(order) + 1), k > 1
               PROVE  \E l \in 1..(k - 1) : {order'[k], order'[l]} \in SubgraphEdges'
    BY <1>1
  <2>1. CASE k \in 1..Len(order)
    BY <1>9, <2>1
  <2>2. CASE k = Len(order) + 1
    <3>1. k - 1 = Len(order) /\ order'[k] = n /\ Len(order) + 1 > 1
      BY <1>1, <2>2
    <3>2. PICK l \in 1..Len(order) : {n, order'[l]} \in SubgraphEdges'
      BY <1>10, <3>1
    <3> QED
      BY <3>1, <3>2
  <2>3. Len(order) \in Nat
    BY <1>1
  <2>4. k \in 1..Len(order) \/ k = Len(order) + 1
    BY <2>3
  <2> QED
    BY <2>1, <2>2, <2>4
<1> QED
  BY <1>1, <1>4, <1>5, <1>6, <1>7, <1>11 DEF VisitedOnceAndConnected

LEMMA InitInv == Init => WalkInv
<1> SUFFICES ASSUME Init PROVE WalkInv
  OBVIOUS
<1>1. order = <<>> /\ Len(order) = 0 /\ DOMAIN order = {} /\ visited = {}
  BY DEF Init, visited, Range
<1>2. TypeOK
  BY <1>1, BoundsAreNumbers DEF Init, TypeOK
<1>3. Fringe /\ VisitedOnceAndConnected
  BY <1>1, <1>2, BoundsAreNumbers DEF Init, Fringe, VisitedOnceAndConnected, TypeOK
<1> QED
  BY <1>2, <1>3 DEF WalkInv

\* The steps that visit no node.
LEMMA QuietSteps ==
  ASSUME WalkInv, UNCHANGED <<input, order>>
  PROVE  /\ visited' = visited
         /\ VisitedOnceAndConnected'
         /\ depth' \in Nat /\ at' \in {"start", "level", "admit", "done"} => TypeOK'
<1>1. visited' = visited
  BY DEF visited
<1>2. SubgraphEdges' = SubgraphEdges
  BY <1>1 DEF SubgraphEdges, input
<1> QED
  BY <1>1, <1>2 DEF WalkInv, VisitedOnceAndConnected, TypeOK, input, IsGraph

LEMMA BeginKeeps == WalkInv /\ Begin => WalkInv'
<1> SUFFICES ASSUME WalkInv, Begin PROVE WalkInv'
  OBVIOUS
<1>1. /\ order = <<>> /\ order' = Append(order, seed)
      /\ visited = {} /\ seed \in nodes /\ ~Full /\ seed \in Ids
      /\ maxNodes > 0 /\ maxDepth >= 0
  BY DEF Begin, WalkInv, Fringe, Degenerate, TypeOK, visited, Range, Full
<1>2. order' \in Seq(Ids) /\ visited' = {seed} /\ VisitedOnceAndConnected'
  BY <1>1, AppendKeeps DEF Begin, WalkInv
<1>3. TypeOK'
  BY <1>2 DEF Begin, WalkInv, TypeOK, input, IsGraph
<1>4. next = {} /\ next' = {}
  BY <1>1 DEF Begin, WalkInv, Fringe
<1>5. Fringe'
  BY <1>2, <1>4 DEF Begin, WalkInv, Fringe, Degenerate, input
<1> QED
  BY <1>2, <1>3, <1>5 DEF WalkInv

LEMMA CollectKeeps == WalkInv /\ Collect => WalkInv'
<1> SUFFICES ASSUME WalkInv, Collect PROVE WalkInv'
  OBVIOUS
<1>1. visited' = visited /\ VisitedOnceAndConnected' /\ TypeOK'
  BY QuietSteps DEF Collect, WalkInv, TypeOK
<1>2. visited \subseteq Ids
  BY DEF WalkInv, TypeOK, VisitedOnceAndConnected
<1>3. ASSUME NEW n \in cands'
      PROVE  n \in Ids /\ n \notin visited /\ \E i \in visited : n \in adj[i]
  <2>1. PICK p \in frontier : n \in adj[p]
    BY <1>3 DEF Collect
  <2>2. n \notin visited
    BY <1>3 DEF Collect
  <2> QED
    BY <1>2, <2>1, <2>2 DEF WalkInv, Fringe, TypeOK
<1>4. Fringe'
  BY <1>1, <1>3 DEF Collect, WalkInv, Fringe, Degenerate, input
<1> QED
  BY <1>1, <1>4 DEF WalkInv

LEMMA AdmitKeeps == WalkInv /\ Admit => WalkInv'
<1> SUFFICES ASSUME WalkInv, Admit PROVE WalkInv'
  OBVIOUS
<1>1. PICK n \in cands : order' = Append(order, n) /\ next' = next \union {n}
                         /\ cands' = cands \ {n}
  BY DEF Admit
<1>2. n \in Ids /\ n \notin visited /\ \E i \in visited : n \in adj[i]
  BY DEF Admit, WalkInv, Fringe
<1>3. n \in nodes /\ visited \subseteq Ids
  BY <1>2 DEF WalkInv, TypeOK, IsGraph, VisitedOnceAndConnected
<1>4. order' \in Seq(Ids) /\ visited' = visited \union {n} /\ VisitedOnceAndConnected'
  BY <1>1, <1>2, <1>3, AppendKeeps DEF Admit, WalkInv
<1>5. TypeOK'
  BY <1>4 DEF Admit, WalkInv, TypeOK, input, IsGraph
<1>6. Fringe'
  BY <1>1, <1>4 DEF Admit, WalkInv, Fringe, Degenerate, input
<1> QED
  BY <1>4, <1>5, <1>6 DEF WalkInv

LEMMA LevelKeeps == WalkInv /\ (NextLevel \/ Return \/ ReturnEmpty) => WalkInv'
<1> SUFFICES ASSUME WalkInv, NextLevel \/ Return \/ ReturnEmpty PROVE WalkInv'
  OBVIOUS
<1>1. visited' = visited /\ VisitedOnceAndConnected' /\ TypeOK'
  BY QuietSteps DEF NextLevel, Return, ReturnEmpty, WalkInv, TypeOK
<1>2. Fringe'
  BY <1>1 DEF NextLevel, Return, ReturnEmpty, WalkInv, Fringe, Degenerate, input
<1> QED
  BY <1>1, <1>2 DEF WalkInv

LEMMA StepInv == WalkInv /\ [Next]_vars => WalkInv'
<1> SUFFICES ASSUME WalkInv, [Next]_vars PROVE WalkInv'
  OBVIOUS
<1>1. CASE UNCHANGED vars
  <2>1. visited' = visited /\ VisitedOnceAndConnected' /\ TypeOK'
    BY <1>1, QuietSteps DEF vars, WalkInv, TypeOK
  <2>2. Fringe'
    BY <1>1, <2>1 DEF vars, WalkInv, Fringe, Degenerate, input
  <2> QED
    BY <2>1, <2>2 DEF WalkInv
<1> QED
  BY <1>1, BeginKeeps, CollectKeeps, AdmitKeeps, LevelKeeps DEF Next, Walk, Stay

\* The visited nodes are connected, within the budget and without repetition,
\* and the candidates are their neighbours (the loop of getSubgraphBFS).
THEOREM WalkInvariant == Spec => []WalkInv
BY InitInv, StepInv, PTL DEF Spec

\* GetSubgraph returns no node twice, never more than its budget, and a
\* connected piece of the graph around the seed (getSubgraphBFS).
THEOREM SubgraphIsConnected == Spec => []VisitedOnceAndConnected
<1>1. WalkInv => VisitedOnceAndConnected
  BY DEF WalkInv
<1> QED
  BY <1>1, WalkInvariant, PTL

-----------------------------------------------------------------------------
Grow(a, b) == b \union UNION {a[i] : i \in b}
Growth(s, a, k, f) == f = [n \in 0..k |-> IF n = 0 THEN {s} ELSE Grow(a, f[n - 1])]
BallOf(s, a, k) == (CHOOSE f : Growth(s, a, k, f))[k]
RingOf(s, a, k) == IF k = 0 THEN {s} ELSE BallOf(s, a, k) \ BallOf(s, a, k - 1)

LEMMA BallIs ==
  ASSUME NEW k
  PROVE Ball(k) = BallOf(seed, adj, k)
  BY Zenon DEF Ball, BallOf, Growth, Grow

LEMMA GrowthExists ==
  ASSUME NEW s, NEW a
  PROVE  \A k \in Nat : \E f : Growth(s, a, k, f)
<1> DEFINE S == {k \in Nat : \E f : Growth(s, a, k, f)}
<1>1. 0 \in S
  <2> DEFINE f == [n \in 0..0 |-> {s}]
  <2>1. Growth(s, a, 0, f)
    BY DEF Growth
  <2> QED BY <2>1
<1>2. \A k \in S : k + 1 \in S
  <2> TAKE k \in S
  <2>1. PICK f : Growth(s, a, k, f)
    OBVIOUS
  <2>0. k \in Nat
    OBVIOUS
  <2> HIDE DEF S
  <2>4. \A n \in 0..k : f[n] = IF n = 0 THEN {s} ELSE Grow(a, f[n - 1])
    BY <2>1 DEF Growth
  <2> DEFINE g == [n \in 0..(k + 1) |-> IF n = 0 THEN {s} ELSE Grow(a, f[n - 1])]
  <2>2. ASSUME NEW n \in 0..k
        PROVE  g[n] = f[n]
    <3>1. n \in 0..(k + 1)
      BY <2>0
    <3>2. g[n] = IF n = 0 THEN {s} ELSE Grow(a, f[n - 1])
      BY <3>1
    <3> QED
      BY <2>4, <3>2
  <2>5. \A n \in 0..(k + 1) :
          g[n] = IF n = 0 THEN {s} ELSE Grow(a, g[n - 1])
    <3> SUFFICES ASSUME NEW n \in 0..(k + 1), n # 0
                 PROVE  g[n] = Grow(a, g[n - 1])
      OBVIOUS
    <3>1. n - 1 \in 0..k
      BY <2>0
    <3>2. g[n] = Grow(a, f[n - 1])
      OBVIOUS
    <3> QED
      BY <2>2, <3>1, <3>2
  <2>6. g = [n \in 0..(k + 1) |-> g[n]]
    OBVIOUS
  <2> HIDE DEF g
  <2>3. Growth(s, a, k + 1, g)
    BY <2>5, <2>6 DEF Growth
  <2> QED
    BY <2>0, <2>3 DEF S
<1>3. Nat \subseteq S
  <2> HIDE DEF S
  <2> QED
    BY <1>1, <1>2, InductionOnNat
<1> QED
  BY <1>3

LEMMA GrowthUnique ==
  ASSUME NEW s, NEW a, NEW k \in Nat, NEW l \in Nat, k <= l, NEW f, NEW g,
         Growth(s, a, k, f), Growth(s, a, l, g)
  PROVE  \A n \in 0..k : f[n] = g[n]
<1> DEFINE S == {n \in Nat : n <= k => f[n] = g[n]}
<1>1. 0 \in S
  BY DEF Growth
<1>2. \A n \in S : n + 1 \in S
  <2> SUFFICES ASSUME NEW n \in S, n + 1 <= k
               PROVE  f[n + 1] = g[n + 1]
    OBVIOUS
  <2>1. n \in Nat /\ n + 1 \in 0..k /\ n + 1 \in 0..l /\ (n + 1) - 1 = n /\ n + 1 # 0
    OBVIOUS
  <2>2. f[n] = g[n]
    BY <2>1
  <2> HIDE DEF S
  <2>3. f[n + 1] = Grow(a, f[n]) /\ g[n + 1] = Grow(a, g[n])
    BY <2>1 DEF Growth
  <2> QED
    BY <2>2, <2>3
<1>3. Nat \subseteq S
  <2> HIDE DEF S
  <2> QED
    BY <1>1, <1>2, InductionOnNat
<1> QED
  BY <1>3

LEMMA BallGrows ==
  ASSUME NEW s, NEW a
  PROVE  /\ BallOf(s, a, 0) = {s}
         /\ \A k \in Nat : BallOf(s, a, k + 1) = Grow(a, BallOf(s, a, k))
<1> DEFINE F(k) == CHOOSE f : Growth(s, a, k, f)
<1>1. \A k \in Nat : Growth(s, a, k, F(k)) /\ BallOf(s, a, k) = F(k)[k]
  BY GrowthExists DEF BallOf
<1> HIDE DEF F
<1>2. BallOf(s, a, 0) = {s}
  BY <1>1 DEF Growth
<1>3. ASSUME NEW k \in Nat
      PROVE  BallOf(s, a, k + 1) = Grow(a, BallOf(s, a, k))
  <2>1. F(k + 1)[k + 1] = Grow(a, F(k + 1)[k])
    BY <1>1 DEF Growth
  <2>2. F(k)[k] = F(k + 1)[k]
    BY <1>1, GrowthUnique
  <2> QED
    BY <1>1, <2>1, <2>2
<1> QED
  BY <1>2, <1>3

LEMMA BallNext ==
  ASSUME NEW s, NEW a, NEW k \in Nat, NEW l, l = k + 1
  PROVE  BallOf(s, a, l) = Grow(a, BallOf(s, a, k))
<1>1. \A j \in Nat : BallOf(s, a, j + 1) = Grow(a, BallOf(s, a, j))
  BY BallGrows
<1> QED
  BY <1>1

LEMMA BallsAreNested ==
  ASSUME NEW s, NEW a, NEW k \in Nat, NEW l \in Nat, k <= l
  PROVE  BallOf(s, a, k) \subseteq BallOf(s, a, l)
<1> DEFINE S == {n \in Nat : BallOf(s, a, k) \subseteq BallOf(s, a, k + n)}
<1>1. 0 \in S
  OBVIOUS
<1>2. \A n \in S : n + 1 \in S
  <2> SUFFICES ASSUME NEW n \in S
               PROVE  BallOf(s, a, k) \subseteq BallOf(s, a, (k + n) + 1)
    OBVIOUS
  <2>1. BallOf(s, a, k + n) \subseteq BallOf(s, a, (k + n) + 1)
    BY BallGrows DEF Grow
  <2> QED
    BY <2>1
<1>3. Nat \subseteq S
  <2> HIDE DEF S
  <2> QED
    BY <1>1, <1>2, InductionOnNat
<1>4. l - k \in Nat /\ k + (l - k) = l
  OBVIOUS
<1> QED
  BY <1>3, <1>4

\* Where no node lies at a distance, none lies farther out.
LEMMA BallsEnd ==
  ASSUME NEW s, NEW a, NEW k \in Nat, NEW l \in Nat, k <= l,
         RingOf(s, a, k) = {}
  PROVE  BallOf(s, a, l) = BallOf(s, a, k)
<1> DEFINE B(n) == BallOf(s, a, n)
<1>1. k > 0 /\ k - 1 \in Nat /\ B(k) = B(k - 1)
  BY BallsAreNested DEF RingOf
<1> DEFINE S == {n \in Nat : B(k + n) = B(k)}
<1>2. 0 \in S
  OBVIOUS
<1>3. \A n \in S : n + 1 \in S
  <2> SUFFICES ASSUME NEW n \in S
               PROVE  B((k + n) + 1) = B(k)
    OBVIOUS
  <2>1. B((k + n) + 1) = Grow(a, B(k + n)) /\ B(k + n) = B(k)
    BY BallGrows
  <2>2. BallOf(s, a, (k - 1) + 1) = Grow(a, BallOf(s, a, k - 1))
    BY <1>1, BallGrows
  <2>4. (k - 1) + 1 = k
    OBVIOUS
  <2>3. B(k) = Grow(a, B(k))
    BY <1>1, <2>2, <2>4
  <2> QED
    BY <2>1, <2>3
<1>4. Nat \subseteq S
  <2> HIDE DEF S
  <2> QED
    BY <1>2, <1>3, InductionOnNat
<1>5. l - k \in Nat /\ k + (l - k) = l
  OBVIOUS
<1>6. B(k + (l - k)) = B(k)
  BY <1>4, <1>5
<1> QED
  BY <1>5, <1>6

-----------------------------------------------------------------------------
(* The walk goes from ball to ball.                                        *)

Begun == at # "start" /\ ~Degenerate

\* Of two nodes at distance k the one that is visited has no lower degree.
HighestFirst(k) ==
  \A i \in RingOf(seed, adj, k) \intersect visited, j \in RingOf(seed, adj, k) \ visited :
    Degree(i) >= Degree(j)

\* Between levels: the nodes nearer than the level are visited, and all of
\* the level too unless the budget is spent.
LevelDone ==
  /\ visited \subseteq BallOf(seed, adj, depth)
  /\ \A k \in Nat : k < depth => BallOf(seed, adj, k) \subseteq visited
  /\ Full \/ (visited = BallOf(seed, adj, depth) /\ frontier = RingOf(seed, adj, depth))
  /\ HighestFirst(depth)

\* Inside a level: the next ring is split into admitted nodes and candidates,
\* the first of no lower degree than the second.
LevelOpen ==
  /\ depth < maxDepth
  /\ visited = BallOf(seed, adj, depth) \union next
  /\ next \union cands = RingOf(seed, adj, depth + 1)
  /\ next \intersect cands = {}
  /\ \A i \in next, j \in cands : Degree(i) >= Degree(j)

LayerInv ==
  /\ at = "start" => depth = 0
  /\ Begun =>
       /\ depth <= maxDepth
       /\ at \in {"level", "done"} => LevelDone
       /\ at = "admit" => LevelOpen
       /\ at = "done" => ~More

LEMMA DegreesAreNumbers == TypeOK => \A i \in Ids : Degree(i) \in Nat
<1> SUFFICES ASSUME TypeOK, NEW i \in Ids PROVE Degree(i) \in Nat
  OBVIOUS
<1>1. adj[i] \subseteq Ids
  BY DEF TypeOK
<1> QED
  BY <1>1, IdsAreFinite, FS_Subset, FS_CardinalityType DEF Degree

LEMMA BeginLayer == WalkInv /\ LayerInv /\ Begin => LayerInv'
<1> SUFFICES ASSUME WalkInv, LayerInv, Begin PROVE LayerInv'
  OBVIOUS
<1>1. visited' = {seed}
  BY DEF Begin, visited, Range
<1>2. depth = 0 /\ depth' = 0 /\ 0 <= maxDepth
  BY DEF Begin, LayerInv, Degenerate, WalkInv, TypeOK
<1>3. seed' = seed /\ adj' = adj /\ maxDepth' = maxDepth
  BY DEF Begin, input
<1>4. BallOf(seed, adj, 0) = {seed} /\ RingOf(seed, adj, 0) = {seed}
  BY BallGrows DEF RingOf
<1>5. HighestFirst(depth)'
  BY <1>1, <1>2, <1>3, <1>4 DEF HighestFirst
<1>6. LevelDone'
  BY <1>1, <1>2, <1>3, <1>4, <1>5 DEF Begin, LevelDone
<1> QED
  BY <1>2, <1>3, <1>6 DEF Begin, LayerInv

\* What the nodes of the level have for neighbours is, but for what was
\* visited before, the next ring.
LEMMA CollectLayer == WalkInv /\ LayerInv /\ Collect => LayerInv'
<1> SUFFICES ASSUME WalkInv, LayerInv, Collect PROVE LayerInv'
  OBVIOUS
<1> DEFINE B(n) == BallOf(seed, adj, n)
<1>1. visited' = visited /\ seed' = seed /\ adj' = adj /\ maxDepth' = maxDepth /\ depth' = depth
  BY DEF Collect, input, visited
<1>2. Begun /\ LevelDone /\ ~Full /\ depth < maxDepth /\ depth \in Nat
  BY DEF Collect, LayerInv, Begun, WalkInv, Fringe, More, TypeOK
<1>3. visited = B(depth) /\ frontier = RingOf(seed, adj, depth)
  BY <1>2 DEF LevelDone
<1>4. B(depth + 1) = Grow(adj, B(depth))
  BY <1>2, BallNext
<1>5. cands' = B(depth + 1) \ B(depth)
  <2>1. CASE depth = 0
    <3>1. B(depth) = {seed} /\ frontier = {seed}
      BY <1>3, <2>1, BallGrows DEF RingOf
    <3> QED
      BY <1>3, <1>4, <3>1 DEF Collect, Grow
  <2>2. CASE depth # 0
    <3>1. depth - 1 \in Nat /\ (depth - 1) + 1 = depth
      BY <1>2, <2>2
    <3>2. BallOf(seed, adj, (depth - 1) + 1) = Grow(adj, B(depth - 1))
      BY <3>1, BallGrows
    <3>3. B(depth) = Grow(adj, B(depth - 1))
      BY <3>1, <3>2
    <3>4. frontier = B(depth) \ B(depth - 1)
      BY <1>3, <2>2 DEF RingOf
    <3> HIDE DEF B
    <3>5. (UNION {adj[i] : i \in B(depth)}) \ B(depth)
          = (UNION {adj[p] : p \in frontier}) \ B(depth)
      BY <3>3, <3>4 DEF Grow
    <3> QED
      BY <1>3, <1>4, <3>5 DEF Collect, Grow
  <2> QED
    BY <2>1, <2>2
<1>6. cands' = RingOf(seed, adj, depth + 1)
  BY <1>2, <1>5 DEF RingOf
<1>7. next' = {}
  BY DEF Collect
<1>8. LevelOpen'
  BY <1>1, <1>2, <1>3, <1>6, <1>7 DEF LevelOpen
<1> QED
  BY <1>1, <1>2, <1>8 DEF Collect, LayerInv, TypeOK, WalkInv

LEMMA AdmitLayer == WalkInv /\ LayerInv /\ Admit => LayerInv'
<1> SUFFICES ASSUME WalkInv, LayerInv, Admit PROVE LayerInv'
  OBVIOUS
<1>1. PICK n \in cands : /\ \A m \in cands \ {n} : Before(n, m)
                         /\ order' = Append(order, n)
                         /\ next' = next \union {n}
                         /\ cands' = cands \ {n}
  BY DEF Admit
<1>2. /\ seed' = seed /\ adj' = adj /\ maxDepth' = maxDepth /\ maxNodes' = maxNodes
      /\ nodes' = nodes /\ depth' = depth /\ at' = at /\ at = "admit"
  BY DEF Admit, input
<1>3. /\ n \in Ids /\ n \notin visited /\ n \in nodes
      /\ \E i \in visited : n \in adj[i]
  BY <1>2 DEF WalkInv, Fringe, TypeOK, IsGraph, VisitedOnceAndConnected
<1>4. visited' = visited \union {n}
  BY <1>1, <1>3, AppendKeeps DEF Admit, WalkInv
<1>5. Begun /\ LevelOpen /\ depth <= maxDepth
  BY <1>2 DEF LayerInv, Begun, WalkInv, Fringe
<1>6. ASSUME NEW i \in next', NEW j \in cands'
      PROVE  Degree(i) >= Degree(j)
  <2>1. CASE i \in next
    BY <1>1, <1>5, <2>1 DEF LevelOpen
  <2>2. CASE i = n
    <3>1. Before(i, j) /\ j \in Ids
      BY <1>1, <1>2, <2>2 DEF WalkInv, Fringe
    <3>2. Degree(i) \in Nat /\ Degree(j) \in Nat
      BY <1>3, <2>2, <3>1, DegreesAreNumbers DEF WalkInv
    <3> QED
      BY <3>1, <3>2 DEF Before
  <2> QED
    BY <1>1, <2>1, <2>2
<1>7. \A i \in next', j \in cands' : Degree(i)' >= Degree(j)'
  BY <1>2, <1>6 DEF Degree
<1>8. LevelOpen'
  BY <1>1, <1>2, <1>4, <1>5, <1>7 DEF LevelOpen
<1> QED
  BY <1>2, <1>5, <1>8 DEF LayerInv

\* A level that ends makes the ring a part of what was visited, or the budget
\* is spent inside it.
LEMMA NextLevelLayer == WalkInv /\ LayerInv /\ NextLevel => LayerInv'
<1> SUFFICES ASSUME WalkInv, LayerInv, NextLevel PROVE LayerInv'
  OBVIOUS
<1> DEFINE B(n) == BallOf(seed, adj, n)
<1>1. /\ visited' = visited /\ seed' = seed /\ adj' = adj /\ maxDepth' = maxDepth
      /\ maxNodes' = maxNodes /\ nodes' = nodes /\ order' = order
      /\ depth' = depth + 1 /\ frontier' = next /\ at' = "level"
  BY DEF NextLevel, input, visited
<1>2. /\ Begun /\ LevelOpen /\ depth \in Nat /\ maxDepth \in Int
      /\ depth + 1 \in Nat /\ depth + 1 # 0 /\ (depth + 1) - 1 = depth
  BY DEF NextLevel, LayerInv, Begun, WalkInv, Fringe, TypeOK
<1>3. RingOf(seed, adj, depth + 1) = B(depth + 1) \ B(depth)
  BY <1>2 DEF RingOf
<1>4. B(depth) \subseteq B(depth + 1)
  BY <1>2, BallsAreNested
<1> HIDE DEF B
<1>5. visited \subseteq B(depth + 1)
  BY <1>2, <1>3, <1>4 DEF LevelOpen, B
<1>6. ASSUME NEW k \in Nat, k < depth + 1
      PROVE  BallOf(seed, adj, k) \subseteq visited
  <2>1. BallOf(seed, adj, k) \subseteq BallOf(seed, adj, depth)
    BY <1>2, <1>6, BallsAreNested
  <2> QED
    BY <1>2, <2>1 DEF LevelOpen
<1>7. Full \/ (visited = B(depth + 1) /\ next = RingOf(seed, adj, depth + 1))
  <2> SUFFICES ASSUME cands = {}
               PROVE  visited = B(depth + 1) /\ next = RingOf(seed, adj, depth + 1)
    BY DEF NextLevel
  <2>1. next = RingOf(seed, adj, depth + 1) /\ visited = B(depth) \union next
    BY <1>2 DEF LevelOpen, B
  <2> QED
    BY <1>3, <1>4, <2>1
<1>8. HighestFirst(depth + 1)
  <2>1. RingOf(seed, adj, depth + 1) \intersect visited \subseteq next
    BY <1>2, <1>3 DEF LevelOpen, B
  <2>2. RingOf(seed, adj, depth + 1) \ visited \subseteq cands
    BY <1>2 DEF LevelOpen
  <2> QED
    BY <1>2, <2>1, <2>2 DEF LevelOpen, HighestFirst
<1>9. HighestFirst(depth)'
  BY <1>1, <1>8 DEF HighestFirst, Degree
<1>10. Full' = Full
  BY <1>1 DEF Full
<1>11. LevelDone'
  BY <1>1, <1>5, <1>6, <1>7, <1>9, <1>10 DEF LevelDone, B
<1>12. depth' <= maxDepth'
  BY <1>1, <1>2 DEF LevelOpen
<1> QED
  BY <1>1, <1>11, <1>12 DEF LayerInv

\* The other steps leave the layers as they are.
LEMMA ReturnLayer == WalkInv /\ LayerInv /\ (Return \/ ReturnEmpty \/ UNCHANGED vars) => LayerInv'
<1> SUFFICES ASSUME WalkInv, LayerInv, Return \/ ReturnEmpty \/ UNCHANGED vars PROVE LayerInv'
  OBVIOUS
<1>1. /\ visited' = visited /\ seed' = seed /\ adj' = adj /\ maxDepth' = maxDepth
      /\ maxNodes' = maxNodes /\ nodes' = nodes /\ order' = order
      /\ depth' = depth /\ frontier' = frontier /\ cands' = cands /\ next' = next
  BY DEF Return, ReturnEmpty, vars, input, visited
<1>2. (LevelDone' = LevelDone) /\ (LevelOpen' = LevelOpen) /\ (More' = More)
      /\ (Degenerate' = Degenerate)
  BY <1>1 DEF LevelDone, LevelOpen, HighestFirst, Degree, More, Full, Degenerate
<1>3. CASE Return
  BY <1>1, <1>2, <1>3 DEF Return, LayerInv, Begun
<1>4. CASE ReturnEmpty
  BY <1>1, <1>2, <1>4 DEF ReturnEmpty, LayerInv, Begun
<1>5. CASE UNCHANGED vars
  BY <1>1, <1>2, <1>5 DEF vars, LayerInv, Begun
<1> QED
  BY <1>3, <1>4, <1>5

LEMMA StepLayer == WalkInv /\ LayerInv /\ [Next]_vars => LayerInv'
BY BeginLayer, CollectLayer, AdmitLayer, NextLevelLayer, ReturnLayer DEF Next, Walk, Stay

\* What is visited is whole levels of the graph and a part of the level under
\* way, whose best are taken first (the loop of getSubgraphBFS).
THEOREM LayerInvariant == Spec => []LayerInv
<1>1. Init => LayerInv
  BY DEF Init, LayerInv, Begun
<1> QED
  BY <1>1, StepLayer, WalkInvariant, PTL DEF Spec

\* What the layers say of a walk that has returned.
LEMMA AtTheEnd ==
  ASSUME WalkInv, LayerInv, at = "done", ~Degenerate
  PROVE  /\ depth \in Nat /\ maxDepth \in Nat /\ depth <= maxDepth
         /\ visited \subseteq BallOf(seed, adj, depth)
         /\ \A k \in Nat : k < depth => BallOf(seed, adj, k) \subseteq visited
         /\ Len(order) < maxNodes => visited = BallOf(seed, adj, maxDepth)
         /\ HighestFirst(depth)
<1>1. LevelDone /\ ~More /\ depth <= maxDepth
  BY DEF LayerInv, Begun
<1>2. depth \in Nat /\ maxDepth \in Nat /\ maxNodes \in Nat /\ Len(order) \in Nat
  BY <1>1 DEF WalkInv, TypeOK
<1>3. ASSUME Len(order) < maxNodes
      PROVE  visited = BallOf(seed, adj, maxDepth)
  <2>1. ~Full
    BY <1>2, <1>3 DEF Full
  <2>2. visited = BallOf(seed, adj, depth) /\ frontier = RingOf(seed, adj, depth)
    BY <1>1, <2>1 DEF LevelDone
  <2>3. depth = maxDepth \/ RingOf(seed, adj, depth) = {}
    BY <1>1, <1>2, <2>1, <2>2 DEF More
  <2> QED
    BY <1>1, <1>2, <2>2, <2>3, BallsEnd
<1> QED
  BY <1>1, <1>2, <1>3 DEF LevelDone

\* The budget goes to the nodes nearest to the seed, for every graph, seed,
\* depth and number of nodes (getSubgraphBFS).
THEOREM NearestFirst == Spec => []NearestWithinBudget
<1>1. ASSUME WalkInv, LayerInv
      PROVE  NearestWithinBudget
  <2> SUFFICES ASSUME at = "done", ~Degenerate
               PROVE  /\ visited \subseteq Ball(maxDepth)
                      /\ Len(order) < maxNodes => visited = Ball(maxDepth)
                      /\ \A k \in 0..maxDepth :
                           ~(Sphere(k) \subseteq visited) => visited \subseteq Ball(k)
    BY DEF NearestWithinBudget
  <2> DEFINE B(n) == BallOf(seed, adj, n)
  <2>1. /\ depth \in Nat /\ maxDepth \in Nat /\ depth <= maxDepth
        /\ visited \subseteq B(depth)
        /\ \A k \in Nat : k < depth => B(k) \subseteq visited
        /\ Len(order) < maxNodes => visited = B(maxDepth)
    BY <1>1, AtTheEnd
  <2>2. B(depth) \subseteq B(maxDepth)
    BY <2>1, BallsAreNested
  <2>3. ASSUME NEW k \in 0..maxDepth, ~(Sphere(k) \subseteq visited)
        PROVE  visited \subseteq B(k)
    <3>1. k \in Nat
      BY <2>1
    <3>2. Sphere(k) \subseteq B(k)
      BY <3>1, BallIs, BallGrows DEF Sphere
    <3>3. ~(k < depth)
      BY <2>1, <2>3, <3>1, <3>2
    <3>4. B(depth) \subseteq B(k)
      BY <2>1, <3>1, <3>3, BallsAreNested
    <3> QED
      BY <2>1, <3>4
  <2> HIDE DEF B
  <2>4. \A k \in 0..maxDepth : Ball(k) = B(k)
    BY BallIs DEF B
  <2> QED
    BY <2>1, <2>2, <2>3, <2>4
<1> QED
  BY <1>1, WalkInvariant, LayerInvariant, PTL

\* On the level that the budget cuts the nodes of the highest degree stay, over
\* all parents of the level (the sort of getSubgraphBFS).
THEOREM DegreeDecidesWhoStays == Spec => []DegreeDecides
<1>1. ASSUME WalkInv, LayerInv
      PROVE  DegreeDecides
  <2> SUFFICES ASSUME at = "done", ~Degenerate, NEW k \in 1..maxDepth,
                      NEW i \in Sphere(k) \intersect visited, NEW j \in Sphere(k) \ visited
               PROVE  Degree(i) >= Degree(j)
    BY DEF DegreeDecides
  <2> DEFINE B(n) == BallOf(seed, adj, n)
  <2>1. /\ depth \in Nat /\ maxDepth \in Nat /\ depth <= maxDepth
        /\ visited \subseteq B(depth)
        /\ \A l \in Nat : l < depth => B(l) \subseteq visited
        /\ HighestFirst(depth)
    BY <1>1, AtTheEnd
  <2>2. k \in Nat /\ k # 0 /\ k - 1 \in Nat
    BY <2>1
  <2>3. Sphere(k) = RingOf(seed, adj, k) /\ Sphere(k) = B(k) \ B(k - 1)
    BY <2>2, BallIs DEF Sphere, RingOf
  <2>4. ~(k < depth)
    BY <2>1, <2>2, <2>3
  <2>5. ~(depth <= k - 1)
    <3> SUFFICES ASSUME depth <= k - 1 PROVE FALSE
      OBVIOUS
    <3>1. B(depth) \subseteq B(k - 1)
      BY <2>1, <2>2, BallsAreNested
    <3> QED
      BY <2>1, <2>3, <3>1
  <2>6. k = depth
    BY <2>1, <2>2, <2>4, <2>5
  <2> QED
    BY <2>1, <2>3, <2>6 DEF HighestFirst
<1> QED
  BY <1>1, WalkInvariant, LayerInvariant, PTL

-----------------------------------------------------------------------------
(* The walk ends: each step counts, the count is bounded, and the loop over *)
(* the candidates always finds a first one.                                *)

\* A level takes a step to collect it and one to leave it, a visited node one.
StepsTaken == 2 * depth + Len(order) + (IF at \in {"admit", "done"} THEN 1 ELSE 0)

\* Nothing is counted before the call begins.
Counted ==
  /\ at = "start" => StepsTaken = 0
  /\ StepsTaken <= IF Degenerate THEN 1 ELSE 2 * maxDepth + maxNodes + 1

\* Candidates are sorted into one order, so one of them is the first.
FirstExists == cands # {} => \E n \in cands : \A m \in cands \ {n} : Before(n, m)

LEMMA CandidatesHaveAFirst == WalkInv /\ at = "admit" => FirstExists
<1> SUFFICES ASSUME WalkInv, at = "admit", cands # {}
             PROVE  \E n \in cands : \A m \in cands \ {n} : Before(n, m)
  BY DEF FirstExists
<1>1. cands \subseteq Ids /\ TypeOK
  BY DEF WalkInv, Fringe
<1>2. \A i \in cands : Degree(i) \in Nat /\ Rank[i] \in Nat
  BY <1>1, DegreesAreNumbers, RankIsAnOrder
<1> DEFINE N == Cardinality(Ids)
           D == {Degree(i) : i \in cands}
<1>3. N \in Nat /\ \A i \in cands : Degree(i) <= N
  <2>1. \A i \in cands : adj[i] \subseteq Ids
    BY <1>1 DEF TypeOK
  <2>2. N \in Nat
    BY IdsAreFinite, FS_CardinalityType
  <2>3. ASSUME NEW i \in cands PROVE Cardinality(adj[i]) <= N
    BY <2>1, IdsAreFinite, FS_Subset
  <2> QED
    BY <2>2, <2>3 DEF Degree
<1>4. PICK d \in D : \A e \in D : e <= d
  <2>1. D \subseteq 0..N /\ D # {}
    BY <1>2, <1>3
  <2> HIDE DEF D, N
  <2> QED
    BY <1>3, <2>1, Greatest
<1> DEFINE R == {Rank[i] : i \in {j \in cands : Degree(j) = d}}
<1>5. PICK r \in R : \A q \in R : r <= q
  <2>1. R \subseteq Nat /\ R # {}
    BY <1>2, <1>4
  <2> HIDE DEF R
  <2> QED
    BY <2>1, LeastElement
<1>6. PICK n \in cands : Degree(n) = d /\ Rank[n] = r
  BY <1>5
<1>7. ASSUME NEW m \in cands \ {n} PROVE Before(n, m)
  <2>1. Degree(m) <= Degree(n) /\ Rank[m] # Rank[n]
    BY <1>1, <1>4, <1>6, RankIsAnOrder
  <2>2. CASE Degree(m) = Degree(n)
    <3>1. Rank[n] <= Rank[m]
      BY <1>5, <1>6, <2>2
    <3> QED
      BY <1>2, <2>1, <2>2, <3>1 DEF Before
  <2>3. CASE Degree(m) # Degree(n)
    BY <1>2, <2>1, <2>3 DEF Before
  <2> QED
    BY <2>2, <2>3
<1> QED
  BY <1>7

LEMMA EachStepCounts == WalkInv /\ Walk => StepsTaken' = StepsTaken + 1
<1> SUFFICES ASSUME WalkInv, Walk PROVE StepsTaken' = StepsTaken + 1
  OBVIOUS
<1>1. depth \in Nat /\ order \in Seq(Ids) /\ Len(order) \in Nat
  BY DEF WalkInv, TypeOK
<1>2. CASE Begin
  <2>1. Len(order) = 0 /\ Len(order') = 1
    BY <1>2 DEF Begin, WalkInv, Fringe
  <2> QED
    BY <1>1, <1>2, <2>1 DEF Begin, StepsTaken
<1>3. CASE Admit
  <2>1. PICK n \in cands : order' = Append(order, n)
    BY <1>3 DEF Admit
  <2>2. Len(order') = Len(order) + 1
    BY <1>1, <1>3, <2>1 DEF Admit, WalkInv, Fringe
  <2> QED
    BY <1>1, <1>3, <2>2 DEF Admit, StepsTaken
<1>4. CASE ReturnEmpty \/ Collect \/ NextLevel \/ Return
  BY <1>1, <1>4 DEF ReturnEmpty, Collect, NextLevel, Return, StepsTaken
<1> QED
  BY <1>2, <1>3, <1>4 DEF Walk

LEMMA SumsAreBounded ==
  ASSUME NEW d \in Nat, NEW l \in Nat, NEW m \in Int, NEW n \in Nat, NEW e \in 0..1,
         d <= m, l <= n
  PROVE  2 * d + l + e <= 2 * m + n + 1
OBVIOUS

\* The levels and the nodes visited stay within what the caller asked for.
LEMMA CountIsBounded == WalkInv /\ LayerInv /\ Counted /\ [Next]_vars => Counted'
<1> SUFFICES ASSUME WalkInv, LayerInv, Counted, [Next]_vars PROVE Counted'
  OBVIOUS
<1>1. WalkInv' /\ LayerInv'
  BY StepInv, StepLayer
<1>2. /\ Len(order') \in Nat /\ depth' \in Nat /\ maxDepth' \in Int /\ maxNodes' \in Nat
      /\ Len(order') <= maxNodes'
  BY <1>1 DEF WalkInv, TypeOK, VisitedOnceAndConnected
<1>3. CASE Begun'
  <2>1. depth' <= maxDepth'
    BY <1>1, <1>3 DEF LayerInv
  <2>2. at' # "start" /\ ~Degenerate'
    BY <1>3 DEF Begun
  <2>3. PICK e \in 0..1 : StepsTaken' = 2 * depth' + Len(order') + e
    <3> DEFINE e == IF at' \in {"admit", "done"} THEN 1 ELSE 0
    <3>1. e \in 0..1 /\ StepsTaken' = 2 * depth' + Len(order') + e
      BY DEF StepsTaken
    <3> QED
      BY <3>1
  <2>4. StepsTaken' <= 2 * maxDepth' + maxNodes' + 1
    BY <1>2, <2>1, <2>3, SumsAreBounded
  <2> QED
    BY <2>2, <2>4 DEF Counted
<1>4. CASE ~Begun' /\ ReturnEmpty
  <2>1. StepsTaken = 0 /\ StepsTaken' = StepsTaken + 1
    BY <1>4, EachStepCounts DEF Counted, ReturnEmpty, Walk
  <2> QED
    BY <1>4, <2>1 DEF Counted, Begun, ReturnEmpty
<1>5. CASE ~Begun' /\ UNCHANGED vars
  BY <1>5 DEF Counted, StepsTaken, Degenerate, vars, input
<1>6. Begin \/ Collect \/ Admit \/ NextLevel \/ Return => Begun'
  BY DEF Begin, Collect, Admit, NextLevel, Return, Begun, Degenerate, input,
     WalkInv, Fringe
<1>7. Begin \/ Collect \/ Admit \/ NextLevel \/ Return \/ ReturnEmpty \/ UNCHANGED vars
  BY DEF Next, Walk, Stay
<1> QED
  BY <1>3, <1>4, <1>5, <1>6, <1>7

\* A call takes at most two steps for each level and one for each node, one of
\* which can always be taken until it returns: on a graph with cycles too, the
\* walk neither goes on for ever nor waits (the two loops of getSubgraphBFS).
THEOREM WalkIsBounded ==
  Spec => /\ []Counted
          /\ [][Walk => StepsTaken' = StepsTaken + 1]_vars
          /\ [](at = "admit" => FirstExists)
<1>1. ASSUME Init PROVE Counted
  <2>1. StepsTaken = 0
    BY <1>1 DEF Init, StepsTaken
  <2>2. maxDepth \in Int /\ maxNodes \in Nat
    BY <1>1, InitInv DEF WalkInv, TypeOK
  <2>3. ~Degenerate => 0 <= 2 * maxDepth + maxNodes + 1
    BY <2>2 DEF Degenerate
  <2> QED
    BY <2>1, <2>3 DEF Counted
<1>2. WalkInv => [Walk => StepsTaken' = StepsTaken + 1]_vars
  BY EachStepCounts
<1>3. WalkInv => (at = "admit" => FirstExists)
  BY CandidatesHaveAFirst
<1> QED
  BY <1>1, <1>2, <1>3, CountIsBounded, WalkInvariant, LayerInvariant, PTL DEF Spec
-----------------------------------------------------------------------------

(***************************************************************************)
(* A remote call: vectors in the order of the texts, retries by the rule.  *)
(***************************************************************************)

\* What the batches answered so far have in common with the finished call.
CallInv ==
  /\ texts \in Nat
  /\ batchSize \in Nat
  /\ out \in Seq(Nat)
  /\ Len(out) <= texts
  /\ \A i \in 1..Len(out) : out[i] = i
  /\ pc # "returned" => result = "none"
  /\ result = "ok" => Len(out) = texts

LEMMA BatchFits ==
  ASSUME CallInv
  PROVE  BatchLen \in Nat /\ Len(out) + BatchLen <= texts
BY SMT DEF CallInv, BatchLen

\* A well-formed answer yields the vectors of the batch, in text order.
LEMMA VecsInTextOrder ==
  ASSUME CallInv, NEW data, WellFormed(data)
  PROVE  /\ Vecs(data) \in Seq(Nat)
         /\ Len(Vecs(data)) = BatchLen
         /\ \A k \in 1..BatchLen : Vecs(data)[k] = Len(out) + k
<1> BatchLen \in Nat
  BY BatchFits
<1> Len(out) \in Nat
  BY SMT DEF CallInv
<1>1. ASSUME NEW k \in 1..BatchLen
      PROVE  Vecs(data)[k] = Len(out) + k
  <2>1. Slot(data, k - 1) # NoVector
    BY <1>1, SMT DEF WellFormed
  <2>2. Slot(data, k - 1) = Len(out) + (k - 1) + 1
    BY <2>1, Zenon DEF Slot
  <2> QED
    BY <2>2, <1>1, SMT DEF Vecs
<1>2. Vecs(data) \in [1..BatchLen -> Nat]
  BY <1>1, SMT DEF Vecs
<1>3. Len(Vecs(data)) = BatchLen /\ Vecs(data) \in Seq(Nat)
  BY <1>2, SMT DEF Vecs
<1> QED
  BY <1>1, <1>3

\* Appending the vectors of the next batch keeps the order.
LEMMA AppendKeepsOrder ==
  ASSUME CallInv, NEW data, WellFormed(data), out' = out \o Vecs(data)
  PROVE  /\ out' \in Seq(Nat)
         /\ Len(out') <= texts
         /\ \A i \in 1..Len(out') : out'[i] = i
<1> DEFINE v == Vecs(data)
<1>1. v \in Seq(Nat) /\ Len(v) = BatchLen /\ \A k \in 1..BatchLen : v[k] = Len(out) + k
  BY VecsInTextOrder
<1>2. BatchLen \in Nat /\ Len(out) + BatchLen <= texts
  BY BatchFits
<1> HIDE DEF v
<1>3. out \in Seq(Nat) /\ texts \in Nat /\ \A i \in 1..Len(out) : out[i] = i
  BY DEF CallInv
<1>4. out' = out \o v
  BY DEF v
<1> QED
  BY <1>1, <1>2, <1>3, <1>4, SMT

LEMMA StartsAligned == CallInit => CallInv
BY SMT DEF CallInit, CallInv

LEMMA StepKeepsAligned == CallInv /\ [CallNext]_callVars => CallInv'
<1> SUFFICES ASSUME CallInv, [CallNext]_callVars PROVE CallInv'
  OBVIOUS
<1>1. CASE BeginCall
  BY <1>1, SMT DEF CallInv, BeginCall, ReturnAs, settings
<1>2. CASE Send
  BY <1>2, SMT DEF CallInv, Send, ReturnAs, settings
<1>3. CASE Receive
  <2>1. PICK data \in Data :
          IF WellFormed(data)
          THEN Succeed(data) /\ Answered("ok")
          ELSE ReturnAs("permanent") /\ Answered("permanent") /\ UNCHANGED <<out, attempt>>
    BY <1>3 DEF Receive
  <2>2. pc = "sent" /\ UNCHANGED settings
    BY <1>3 DEF Receive
  <2>3. CASE WellFormed(data)
    <3>1. out' = out \o Vecs(data)
      BY <2>1, <2>3 DEF Succeed
    <3>2. out' \in Seq(Nat) /\ Len(out') <= texts /\ \A i \in 1..Len(out') : out'[i] = i
      BY <3>1, <2>3, AppendKeepsOrder
    <3>3. \/ Len(out') < texts /\ pc' = "trying" /\ result' = result
          \/ ~(Len(out') < texts) /\ pc' = "returned" /\ result' = "ok"
      BY <2>1, <2>3 DEF Succeed, ReturnAs
    <3> QED
      BY <3>2, <3>3, <2>2, SMT DEF CallInv, settings
  <2>4. CASE ~WellFormed(data)
    BY <2>1, <2>2, <2>4, SMT DEF CallInv, ReturnAs, settings
  <2> QED
    BY <2>3, <2>4
<1>4. CASE Transient
  BY <1>4, SMT DEF CallInv, Transient, RetryOrGiveUp, ReturnAs, settings
<1>5. CASE Permanent
  BY <1>5, SMT DEF CallInv, Permanent, ReturnAs, settings
<1>6. CASE Wake
  BY <1>6, SMT DEF CallInv, Wake, settings
<1>7. CASE WaitCancelled
  BY <1>7, SMT DEF CallInv, WaitCancelled, ReturnAs, settings
<1>8. CASE Cancel
  BY <1>8, SMT DEF CallInv, Cancel, settings
<1>9. CASE UNCHANGED callVars
  BY <1>9, SMT DEF CallInv, callVars, settings
<1> QED
  BY <1>1, <1>2, <1>3, <1>4, <1>5, <1>6, <1>7, <1>8, <1>9 DEF CallNext, Step, Returned

\* The vectors gathered so far are those of the first texts, in order, in
\* every state of every call (the loop of Embed).
THEOREM CallInvariant == CallSpec => []CallInv
BY StartsAligned, StepKeepsAligned, PTL DEF CallSpec

\* A call that succeeds returns the vector of the i-th text at place i, for
\* every text and nothing else (the contract of Embed).
THEOREM EmbedAligns == CallSpec => []VectorsAlignWithTexts
<1>1. CallInv => VectorsAlignWithTexts
  BY SMT DEF CallInv, VectorsAlignWithTexts
<1> QED
  BY <1>1, CallInvariant, PTL

-----------------------------------------------------------------------------
(* The requests.                                                           *)

Requests == [from : Nat, was : {"ok", "transient", "permanent"}]

\* The batch under way was asked for once per attempt spent on it, at the end
\* of the list and each time in vain; the one before it was answered.
Pending ==
  /\ attempt <= Len(posts)
  /\ \A k \in 1..Len(posts) : posts[k].from = Len(out) <=> k > Len(posts) - attempt
  /\ \A k \in 1..Len(posts) : k > Len(posts) - attempt => posts[k].was = "transient"
  /\ \A k \in 1..Len(posts) : posts[k].from <= Len(out)
  /\ attempt = 0 /\ Len(posts) > 0 =>
       /\ posts[Len(posts)].was = "ok"
       /\ posts[Len(posts)].from + batchSize = Len(out)

RetryInv ==
  /\ posts \in Seq(Requests)
  /\ attempt \in Nat /\ maxRetries \in Int /\ maxRetries >= -1
  /\ pc = "start" => posts = <<>> /\ out = <<>> /\ attempt = 0
  /\ pc \in {"trying", "sent", "waiting"} =>
       batchSize > 0 /\ Len(out) < texts /\ attempt <= maxRetries /\ Pending
  /\ RetriesByTheRule

\* One more request, for the batch under way.
LEMMA AnsweredKeeps ==
  ASSUME CallInv, RetryInv, pc = "sent",
         NEW how \in {"ok", "transient", "permanent"}, Answered(how)
  PROVE  LET n == Len(posts)
             Same(f) == {k \in DOMAIN posts' : posts'[k].from = f}
         IN  /\ posts' \in Seq(Requests)
             /\ Len(posts') = n + 1 /\ n \in Nat
             /\ \A k \in 1..n : posts'[k] = posts[k]
             /\ posts'[n + 1] = [from |-> Len(out), was |-> how]
             /\ \A k \in 2..(n + 1) :
                  \/ posts'[k - 1].was = "transient" /\ posts'[k].from = posts'[k - 1].from
                  \/ /\ posts'[k - 1].was = "ok"
                     /\ posts'[k].from = posts'[k - 1].from + batchSize
             /\ \A k \in 1..(n + 1) : Cardinality(Same(posts'[k].from)) <= maxRetries + 1
             /\ Same(Len(out)) = (n + 1 - attempt)..(n + 1)
             /\ Cardinality(Same(Len(out))) = attempt + 1
<1> DEFINE n == Len(posts)
           Same(f) == {k \in DOMAIN posts' : posts'[k].from = f}
           p == [from |-> Len(out), was |-> how]
<1>1. /\ n \in Nat /\ attempt \in Nat /\ attempt <= n /\ attempt <= maxRetries
      /\ maxRetries \in Int /\ batchSize > 0 /\ Len(out) \in Nat /\ batchSize \in Nat
      /\ posts \in Seq(Requests)
  BY DEF RetryInv, CallInv, Pending
<1>2. p \in Requests
  BY <1>1 DEF Requests
<1>3. p.from = Len(out)
  OBVIOUS
<1>4. posts' = Append(posts, p)
  BY DEF Answered
<1> HIDE DEF p
<1>5. /\ posts' \in Seq(Requests)
      /\ Len(posts') = n + 1 /\ DOMAIN posts' = 1..(n + 1)
      /\ \A k \in 1..n : posts'[k] = posts[k]
      /\ posts'[n + 1] = p
  BY <1>1, <1>2, <1>4
<1>6. \A k \in 1..n : posts[k].from \in Nat
  <2>1. \A k \in 1..n : posts[k] \in Requests
    BY <1>1
  <2>2. \A q \in Requests : q.from \in Nat
    BY DEF Requests
  <2> QED
    BY <2>1, <2>2
<1>7. Same(Len(out)) = (n + 1 - attempt)..(n + 1)
  <2>1. \A k \in 1..n : posts[k].from = Len(out) <=> k > n - attempt
    BY DEF RetryInv, Pending
  <2>2. \A k \in 1..(n + 1) : posts'[k].from = Len(out) <=> k > n - attempt
    <3> SUFFICES ASSUME NEW k \in 1..(n + 1)
                 PROVE  posts'[k].from = Len(out) <=> k > n - attempt
      OBVIOUS
    <3>1. CASE k \in 1..n
      BY <1>5, <2>1, <3>1
    <3>2. CASE k = n + 1
      <4>1. posts'[k].from = Len(out)
        BY <1>3, <1>5, <3>2
      <4>2. k > n - attempt
        BY <1>1, <3>2
      <4> QED
        BY <4>1, <4>2
    <3> QED
      BY <1>1, <3>1, <3>2
  <2>3. Same(Len(out)) = {k \in 1..(n + 1) : k > n - attempt}
    BY <1>5, <2>2
  <2>4. {k \in 1..(n + 1) : k > n - attempt} = (n + 1 - attempt)..(n + 1)
    BY <1>1
  <2> QED
    BY <2>3, <2>4
<1>8. Cardinality(Same(Len(out))) = attempt + 1
  <2>1. n + 1 - attempt \in Int /\ n + 1 \in Int /\ n + 1 - attempt <= n + 1
    BY <1>1
  <2>2. Cardinality((n + 1 - attempt)..(n + 1)) = (n + 1) - (n + 1 - attempt) + 1
    BY <2>1, FS_Interval
  <2>3. (n + 1) - (n + 1 - attempt) + 1 = attempt + 1
    BY <1>1
  <2> HIDE DEF Same
  <2> QED
    BY <1>7, <2>2, <2>3
<1>9. ASSUME NEW k \in 1..(n + 1), posts'[k].from # Len(out)
      PROVE  Cardinality(Same(posts'[k].from)) <= maxRetries + 1
  <2>1. k \in 1..n /\ k \in DOMAIN posts
    BY <1>1, <1>3, <1>5, <1>9
  <2>2. posts'[k].from = posts[k].from /\ posts'[n + 1].from # posts[k].from
    BY <1>3, <1>5, <1>9, <2>1
  <2>3. 1..(n + 1) = 1..n \union {n + 1} /\ DOMAIN posts = 1..n
    BY <1>1
  <2>4. Same(posts'[k].from) = Tries(posts[k].from)
    BY <1>5, <2>2, <2>3 DEF Tries
  <2> QED
    BY <2>1, <2>4 DEF RetryInv, RetriesByTheRule
<1>10. \A k \in 1..(n + 1) : Cardinality(Same(posts'[k].from)) <= maxRetries + 1
  <2> SUFFICES ASSUME NEW k \in 1..(n + 1)
               PROVE  Cardinality(Same(posts'[k].from)) <= maxRetries + 1
    OBVIOUS
  <2>1. CASE posts'[k].from = Len(out)
    <3>1. Cardinality(Same(posts'[k].from)) = attempt + 1
      BY <1>8, <2>1
    <3> QED
      BY <1>1, <3>1
  <2> QED
    BY <1>9, <2>1
<1>11. ASSUME NEW k \in 2..(n + 1)
       PROVE  \/ posts'[k - 1].was = "transient" /\ posts'[k].from = posts'[k - 1].from
              \/ /\ posts'[k - 1].was = "ok"
                 /\ posts'[k].from = posts'[k - 1].from + batchSize
  <2>1. CASE k <= n
    <3>1. k \in 2..n /\ k - 1 \in 1..n /\ k \in 1..n
      BY <1>1, <2>1
    <3> QED
      BY <1>5, <3>1 DEF RetryInv, RetriesByTheRule
  <2>2. CASE k = n + 1
    <3>1. n \in 1..n /\ k - 1 = n /\ n > 0
      BY <1>1, <2>2
    <3>2. CASE attempt = 0
      <4>1. posts[n].was = "ok" /\ posts[n].from + batchSize = Len(out)
        BY <3>1, <3>2 DEF RetryInv, Pending
      <4> QED
        BY <1>3, <1>5, <2>2, <3>1, <4>1
    <3>3. CASE attempt # 0
      <4>1. n > n - attempt
        BY <1>1, <3>3
      <4>2. posts[n].was = "transient" /\ posts[n].from = Len(out)
        BY <3>1, <4>1 DEF RetryInv, Pending
      <4> QED
        BY <1>3, <1>5, <2>2, <3>1, <4>2
    <3> QED
      BY <3>2, <3>3
  <2> QED
    BY <1>1, <2>1, <2>2
<1> QED
  BY <1>1, <1>5, <1>7, <1>8, <1>10, <1>11 DEF p

\* A step that sends nothing, and ends the call only for other reasons.
LEMMA NoRequestKeeps ==
  ASSUME CallInv, RetryInv, UNCHANGED <<posts, out, batchSize, maxRetries>>,
         result' = result \/ result' # "exhausted"
  PROVE  RetriesByTheRule'
BY DEF RetryInv, RetriesByTheRule, Tries

LEMMA StartsFresh == CallInit => RetryInv
<1> SUFFICES ASSUME CallInit PROVE RetryInv
  OBVIOUS
<1>1. posts = <<>> /\ Len(posts) = 0 /\ DOMAIN posts = {}
  BY DEF CallInit
<1>2. RetriesByTheRule
  BY <1>1 DEF CallInit, RetriesByTheRule
<1>3. maxRetries \in Int /\ maxRetries >= -1 /\ attempt \in Nat
  BY SMT DEF CallInit
<1> QED
  BY <1>1, <1>2, <1>3 DEF CallInit, RetryInv

LEMMA AnswerKeepsRule ==
  ASSUME CallInv, RetryInv, pc = "sent", UNCHANGED settings,
         NEW how \in {"ok", "transient", "permanent"}, Answered(how),
         result' # "exhausted" \/ (out' = out /\ attempt = maxRetries /\ how = "transient")
  PROVE  RetriesByTheRule'
<1> DEFINE n == Len(posts)
           Same(f) == {k \in DOMAIN posts' : posts'[k].from = f}
<1>1. /\ posts' \in Seq(Requests)
      /\ Len(posts') = n + 1 /\ n \in Nat
      /\ \A k \in 1..n : posts'[k] = posts[k]
      /\ posts'[n + 1] = [from |-> Len(out), was |-> how]
      /\ \A k \in 2..(n + 1) :
           \/ posts'[k - 1].was = "transient" /\ posts'[k].from = posts'[k - 1].from
           \/ posts'[k - 1].was = "ok" /\ posts'[k].from = posts'[k - 1].from + batchSize
      /\ \A k \in 1..(n + 1) : Cardinality(Same(posts'[k].from)) <= maxRetries + 1
      /\ Same(Len(out)) = (n + 1 - attempt)..(n + 1)
      /\ Cardinality(Same(Len(out))) = attempt + 1
  BY AnsweredKeeps
<1>2. maxRetries' = maxRetries /\ batchSize' = batchSize
  BY DEF settings
<1>3. DOMAIN posts' = 1..(n + 1)
  BY <1>1
<1>4. ASSUME result' = "exhausted"
      PROVE  \A k \in Same(Len(out)) : posts'[k].was = "transient"
  <2>1. how = "transient" /\ attempt \in Nat /\ attempt <= n
    BY <1>4 DEF RetryInv, Pending
  <2>2. \A k \in 1..n : k > n - attempt => posts[k].was = "transient"
    BY DEF RetryInv, Pending
  <2>3. posts'[n + 1].was = "transient"
    BY <1>1, <2>1
  <2>4. ASSUME NEW k \in (n + 1 - attempt)..(n + 1)
        PROVE  posts'[k].was = "transient"
    <3>1. k = n + 1 \/ (k \in 1..n /\ k > n - attempt)
      BY <1>1, <2>1
    <3> QED
      BY <1>1, <2>2, <2>3, <3>1
  <2> QED
    BY <1>1, <2>4
<1>5. result' = "exhausted" => out' = out /\ attempt = maxRetries
  OBVIOUS
<1> QED
  BY <1>1, <1>2, <1>3, <1>4, <1>5 DEF RetriesByTheRule, Tries

LEMMA StepKeepsRule == CallInv /\ RetryInv /\ [CallNext]_callVars => RetryInv'
<1> SUFFICES ASSUME CallInv, RetryInv, [CallNext]_callVars PROVE RetryInv'
  OBVIOUS
<1>1. CASE BeginCall
  <2>1. posts = <<>> /\ out = <<>> /\ attempt = 0 /\ Len(posts) = 0 /\ Len(out) = 0
    BY <1>1 DEF BeginCall, RetryInv
  <2>2. UNCHANGED <<settings, attempt, out, posts>>
    BY <1>1 DEF BeginCall
  <2>3. \/ pc' = "returned" /\ result' \in {"ok", "refused"}
        \/ pc' = "returned" /\ result' = "exhausted" /\ maxRetries < 0
        \/ /\ pc' = "trying" /\ result' = result
           /\ texts > 0 /\ batchSize > 0 /\ maxRetries >= 0
    BY <1>1, SMT DEF BeginCall, ReturnAs, CallInv, RetryInv
  <2>4. Tries(Len(out))' = {}
    BY <2>1, <2>2 DEF Tries
  <2>5. Cardinality(Tries(Len(out))') = 0
    BY <2>4, FS_EmptySet
  <2>6. RetriesByTheRule'
    <3>1. DOMAIN posts' = {}
      BY <2>1, <2>2
    <3>2. result' = "exhausted" => maxRetries' + 1 = 0
      <4>1. result = "none" /\ maxRetries' = maxRetries
        BY <1>1, <2>2 DEF BeginCall, CallInv, settings
      <4>2. maxRetries \in Int /\ maxRetries >= -1
        BY DEF RetryInv
      <4> QED
        BY <2>3, <4>1, <4>2
    <3> QED
      BY <2>1, <2>2, <2>4, <2>5, <3>1, <3>2 DEF RetriesByTheRule
  <2> QED
    BY <2>1, <2>2, <2>3, <2>6 DEF RetryInv, Pending, settings
<1>2. CASE Send \/ Wake \/ WaitCancelled
  <2>1. /\ UNCHANGED <<settings, attempt, out, posts>>
        /\ pc \in {"trying", "waiting"} /\ pc' \in {"trying", "sent", "returned"}
        /\ result' = result \/ result' \in {"permanent", "cancelled"}
    BY <1>2 DEF Send, Wake, WaitCancelled, ReturnAs
  <2>2. RetriesByTheRule'
    BY <2>1, NoRequestKeeps DEF settings
  <2> QED
    BY <2>1, <2>2 DEF RetryInv, Pending, settings
<1>3. CASE Receive
  <2>1. PICK data \in Data :
          IF WellFormed(data)
          THEN Succeed(data) /\ Answered("ok")
          ELSE ReturnAs("permanent") /\ Answered("permanent") /\ UNCHANGED <<out, attempt>>
    BY <1>3 DEF Receive
  <2>2. pc = "sent" /\ UNCHANGED settings
    BY <1>3 DEF Receive
  <2>3. CASE WellFormed(data)
    <3>1. /\ out' = out \o Vecs(data) /\ attempt' = 0
          /\ \/ Len(out') < texts /\ pc' = "trying" /\ result' = result
             \/ pc' = "returned" /\ result' = "ok"
      BY <2>1, <2>3 DEF Succeed, ReturnAs
    <3>2. result = "none" /\ result' # "exhausted" /\ Answered("ok")
      BY <2>1, <2>2, <2>3, <3>1 DEF CallInv
    <3>3. RetriesByTheRule'
      BY <2>2, <3>2, AnswerKeepsRule
    <3>4. /\ posts' \in Seq(Requests)
          /\ Len(posts') = Len(posts) + 1 /\ Len(posts) \in Nat
          /\ \A k \in 1..Len(posts) : posts'[k] = posts[k]
          /\ posts'[Len(posts) + 1] = [from |-> Len(out), was |-> "ok"]
      BY <2>2, <3>2, AnsweredKeeps
    <3>5. CASE pc' = "trying"
      <4>1. /\ Vecs(data) \in Seq(Nat) /\ Len(Vecs(data)) = BatchLen
            /\ out \in Seq(Nat) /\ BatchLen \in Nat
            /\ texts \in Nat /\ batchSize \in Nat /\ batchSize > 0 /\ Len(out) < texts
        BY <2>2, <2>3, VecsInTextOrder, BatchFits DEF CallInv, RetryInv
      <4>2. Len(out') = Len(out) + BatchLen /\ Len(out') < texts
        <5> DEFINE v == Vecs(data)
        <5>1. out' = out \o v /\ v \in Seq(Nat) /\ Len(v) = BatchLen
          BY <3>1, <4>1
        <5> HIDE DEF v
        <5>2. Len(out') < texts
          BY <3>1, <3>5
        <5>3. out \in Seq(Nat) /\ v \in Seq(Nat)
          BY <4>1, <5>1
        <5>4. Len(out \o v) = Len(out) + Len(v)
          BY <5>3, SMT
        <5> QED
          BY <5>1, <5>2, <5>4
      <4>3. BatchLen = batchSize
        BY <4>1, <4>2 DEF BatchLen
      <4>4. \A k \in 1..Len(posts) : posts[k].from <= Len(out) /\ posts[k].from \in Nat
        <5>1. \A k \in 1..Len(posts) : posts[k] \in Requests
          BY DEF RetryInv
        <5>2. \A q \in Requests : q.from \in Nat
          BY DEF Requests
        <5> QED
          BY <2>2, <5>1, <5>2 DEF RetryInv, Pending
      <4>5. ASSUME NEW k \in 1..Len(posts')
            PROVE  posts'[k].from \in Nat /\ posts'[k].from <= Len(out)
        <5>1. k \in 1..Len(posts) \/ k = Len(posts) + 1
          BY <3>4
        <5>2. CASE k \in 1..Len(posts)
          BY <3>4, <4>4, <5>2
        <5>3. CASE k = Len(posts) + 1
          <6>1. posts'[k].from = Len(out)
            BY <3>4, <5>3
          <6>2. Len(out) \in Nat
            BY DEF CallInv
          <6> QED
            BY <6>1, <6>2
        <5> QED
          BY <5>1, <5>2, <5>3
      <4>6. posts'[Len(posts')].was = "ok" /\ posts'[Len(posts')].from = Len(out)
        BY <3>4
      <4>7. Pending'
        BY <2>2, <3>1, <3>4, <4>1, <4>2, <4>3, <4>5, <4>6 DEF Pending, settings
      <4> QED
        BY <2>2, <3>1, <3>3, <3>4, <3>5, <4>1, <4>2, <4>7 DEF RetryInv, settings
    <3>6. CASE pc' = "returned"
      BY <2>2, <3>1, <3>3, <3>4, <3>6 DEF RetryInv, settings
    <3> QED
      BY <3>1, <3>5, <3>6
  <2>4. CASE ~WellFormed(data)
    <3>1. /\ pc' = "returned" /\ result' = "permanent" /\ Answered("permanent")
          /\ UNCHANGED <<out, attempt>>
      BY <2>1, <2>4 DEF ReturnAs
    <3>2. RetriesByTheRule'
      BY <2>2, <3>1, AnswerKeepsRule
    <3>3. posts' \in Seq(Requests)
      BY <2>2, <3>1, AnsweredKeeps
    <3> QED
      BY <2>2, <3>1, <3>2, <3>3 DEF RetryInv, settings
  <2> QED
    BY <2>3, <2>4
<1>4. CASE Transient
  <2>1. pc = "sent" /\ UNCHANGED <<settings, out>> /\ Answered("transient")
    BY <1>4 DEF Transient
  <2>2. \/ attempt < maxRetries /\ pc' = "waiting" /\ attempt' = attempt + 1 /\ result' = result
        \/ ~(attempt < maxRetries) /\ pc' = "returned" /\ result' = "exhausted" /\ attempt' = attempt
    BY <1>4 DEF Transient, RetryOrGiveUp, ReturnAs
  <2>3. attempt \in Nat /\ maxRetries \in Int /\ attempt <= maxRetries /\ result = "none"
    BY <2>1 DEF RetryInv, CallInv
  <2>4. RetriesByTheRule'
    <3>1. result' # "exhausted" \/ attempt = maxRetries
      BY <2>2, <2>3
    <3> QED
      BY <2>1, <3>1, AnswerKeepsRule
  <2>5. /\ posts' \in Seq(Requests)
        /\ Len(posts') = Len(posts) + 1 /\ Len(posts) \in Nat
        /\ \A k \in 1..Len(posts) : posts'[k] = posts[k]
        /\ posts'[Len(posts) + 1] = [from |-> Len(out), was |-> "transient"]
    BY <2>1, AnsweredKeeps
  <2>6. CASE pc' = "waiting"
    <3>1. /\ attempt <= Len(posts)
          /\ \A k \in 1..Len(posts) : posts[k].from = Len(out) <=> k > Len(posts) - attempt
          /\ \A k \in 1..Len(posts) : k > Len(posts) - attempt => posts[k].was = "transient"
          /\ \A k \in 1..Len(posts) : posts[k].from <= Len(out)
      BY <2>1 DEF RetryInv, Pending
    <3>2. attempt' = attempt + 1 /\ attempt < maxRetries
      BY <2>2, <2>6
    <3>3. Len(out) \in Nat
      BY DEF CallInv
    <3>4. ASSUME NEW k \in 1..Len(posts')
          PROVE  /\ posts'[k].from = Len(out) <=> k > Len(posts') - attempt'
                 /\ k > Len(posts') - attempt' => posts'[k].was = "transient"
                 /\ posts'[k].from <= Len(out)
      <4>1. k \in 1..Len(posts) \/ k = Len(posts) + 1
        BY <2>5
      <4>2. Len(posts') - attempt' = Len(posts) - attempt
        BY <2>3, <2>5, <3>2
      <4>3. CASE k \in 1..Len(posts)
        BY <2>5, <3>1, <4>2, <4>3
      <4>4. CASE k = Len(posts) + 1
        <5>1. posts'[k].from = Len(out) /\ posts'[k].was = "transient"
          BY <2>5, <4>4
        <5>2. k > Len(posts) - attempt
          BY <2>3, <2>5, <4>4
        <5> QED
          BY <3>3, <4>2, <5>1, <5>2
      <4> QED
        BY <4>1, <4>3, <4>4
    <3>5. attempt' <= Len(posts') /\ attempt' # 0
      BY <2>3, <2>5, <3>1, <3>2
    <3>6. Pending'
      BY <2>1, <3>4, <3>5 DEF Pending, settings
    <3> QED
      BY <2>1, <2>3, <2>4, <2>5, <2>6, <3>2, <3>6 DEF RetryInv, settings
  <2>7. CASE pc' = "returned"
    BY <2>1, <2>2, <2>3, <2>4, <2>5, <2>7 DEF RetryInv, settings
  <2> QED
    BY <2>2, <2>6, <2>7
<1>5. CASE Permanent
  <2>1. /\ pc = "sent" /\ pc' = "returned" /\ result' = "permanent"
        /\ Answered("permanent") /\ UNCHANGED <<settings, attempt, out>>
    BY <1>5 DEF Permanent, ReturnAs
  <2>2. RetriesByTheRule'
    BY <2>1, AnswerKeepsRule
  <2>3. posts' \in Seq(Requests)
    BY <2>1, AnsweredKeeps
  <2> QED
    BY <2>1, <2>2, <2>3 DEF RetryInv, settings
<1>6. CASE Cancel \/ UNCHANGED callVars
  <2>1. UNCHANGED <<settings, pc, attempt, out, result, posts>>
    BY <1>6 DEF Cancel, callVars
  <2>2. RetriesByTheRule'
    BY <2>1, NoRequestKeeps DEF settings
  <2> QED
    BY <2>1, <2>2 DEF RetryInv, Pending, settings
<1> QED
  BY <1>1, <1>2, <1>3, <1>4, <1>5, <1>6 DEF CallNext, Step, Returned

\* Nothing that was answered is asked for again, no batch more often than
\* MaxRetries + 1 times, and a call gives up on a batch only after it spent
\* all of these on that batch (withRetry and embedOnce of s06, Complete of
\* s02), for every number of texts, batch size and number of retries.
THEOREM NothingPaidTwice == CallSpec => []RetriesByTheRule
<1>1. CallInv /\ CallInv' /\ RetryInv /\ [CallNext]_callVars => RetryInv'
  BY StepKeepsRule
<1>2. RetryInv => RetriesByTheRule
  BY DEF RetryInv
<1> QED
  BY <1>1, <1>2, StartsFresh, CallInvariant, PTL DEF CallSpec

-----------------------------------------------------------------------------
(* Every step leaves less to do: fewer texts, or as many and fewer retries *)
(* of the batch under way, or the same and less of this try.               *)

TextsLeft == texts - Len(out)
RetriesLeft == maxRetries - attempt
TryLeft == CASE pc = "start"   -> 4
             [] pc = "waiting" -> 3
             [] pc = "trying"  -> 2
             [] pc = "sent"    -> 1
             [] OTHER          -> 0

SameLeft == TextsLeft' = TextsLeft /\ RetriesLeft' = RetriesLeft
Closer ==
  \/ TextsLeft' < TextsLeft
  \/ TextsLeft' = TextsLeft /\ RetriesLeft' < RetriesLeft
  \/ SameLeft /\ TryLeft' < TryLeft

\* Until the call returns; a budget of -1 is spent when the call begins.
LeftIsBounded ==
  pc \in {"start", "trying", "sent", "waiting"} =>
    TextsLeft \in Nat /\ RetriesLeft \in Int /\ RetriesLeft >= -1

LEMMA StepsCloseIn == CallInv /\ RetryInv /\ Step => Closer
<1> SUFFICES ASSUME CallInv, RetryInv, Step PROVE Closer
  OBVIOUS
<1>1. texts \in Nat /\ Len(out) \in Nat /\ attempt \in Nat /\ maxRetries \in Int
  BY DEF CallInv, RetryInv
<1>2. CASE BeginCall
  BY <1>2 DEF BeginCall, ReturnAs, settings, Closer, SameLeft, TextsLeft, RetriesLeft, TryLeft
<1>3. CASE Send \/ Permanent \/ Wake \/ WaitCancelled
  BY <1>3 DEF Send, Permanent, Wake, WaitCancelled, ReturnAs, settings,
     Closer, SameLeft, TextsLeft, RetriesLeft, TryLeft
<1>4. CASE Transient
  <2>1. CASE attempt < maxRetries
    BY <1>1, <1>4, <2>1
       DEF Transient, RetryOrGiveUp, settings, Closer, TextsLeft, RetriesLeft
  <2>2. CASE ~(attempt < maxRetries)
    BY <1>4, <2>2 DEF Transient, RetryOrGiveUp, ReturnAs, settings,
       Closer, SameLeft, TextsLeft, RetriesLeft, TryLeft
  <2> QED
    BY <2>1, <2>2
<1>5. CASE Receive
  <2>1. PICK data \in Data :
          IF WellFormed(data)
          THEN Succeed(data) /\ Answered("ok")
          ELSE ReturnAs("permanent") /\ Answered("permanent") /\ UNCHANGED <<out, attempt>>
    BY <1>5 DEF Receive
  <2>2. pc = "sent" /\ UNCHANGED settings
    BY <1>5 DEF Receive
  <2>3. CASE WellFormed(data)
    <3> DEFINE v == Vecs(data)
    <3>1. /\ out' = out \o v
          /\ v \in Seq(Nat) /\ Len(v) = BatchLen /\ BatchLen \in Nat
          /\ out \in Seq(Nat) /\ batchSize \in Nat /\ batchSize > 0 /\ Len(out) < texts
      BY <2>1, <2>2, <2>3, VecsInTextOrder, BatchFits DEF Succeed, CallInv, RetryInv
    <3> HIDE DEF v
    <3>2. Len(out') = Len(out) + BatchLen
      <4>1. out \in Seq(Nat) /\ v \in Seq(Nat)
        BY <3>1
      <4>2. Len(out \o v) = Len(out) + Len(v)
        BY <4>1, SMT
      <4> QED
        BY <3>1, <4>2
    <3>3. BatchLen > 0
      BY <1>1, <3>1 DEF BatchLen
    <3>4. texts' = texts
      BY <2>2 DEF settings
    <3>5. TextsLeft' = TextsLeft - BatchLen /\ TextsLeft \in Int
      BY <1>1, <3>1, <3>2, <3>4 DEF TextsLeft
    <3> QED
      BY <3>1, <3>3, <3>5 DEF Closer
  <2>4. CASE ~WellFormed(data)
    BY <2>1, <2>2, <2>4 DEF ReturnAs, settings, Closer, SameLeft, TextsLeft, RetriesLeft, TryLeft
  <2> QED
    BY <2>3, <2>4
<1> QED
  BY <1>2, <1>3, <1>4, <1>5 DEF Step

\* A call cannot go on for ever: each of its steps leaves less to do, in an
\* order without endless descent, and a cancellation takes nothing back
\* (withRetry and Embed of s06, Complete of s02).
THEOREM CallComesToAnEnd ==
  CallSpec => /\ []LeftIsBounded
              /\ [][Step => Closer]_callVars
              /\ [][Cancel => SameLeft /\ TryLeft' = TryLeft]_callVars
<1>1. CallInv /\ RetryInv => LeftIsBounded
  BY DEF CallInv, RetryInv, LeftIsBounded, TextsLeft, RetriesLeft
<1>2. CallInv /\ RetryInv => [Step => Closer]_callVars
  BY StepsCloseIn
<1>3. [Cancel => SameLeft /\ TryLeft' = TryLeft]_callVars
  BY DEF Cancel, settings, SameLeft, TextsLeft, RetriesLeft, TryLeft
<1> QED
  BY <1>1, <1>2, <1>3, StartsFresh, StepKeepsRule, CallInvariant, PTL DEF CallSpec
-----------------------------------------------------------------------------

(***************************************************************************)
(* The cutting: no short stretch is lost, no chunk is needless.            *)
(***************************************************************************)

Chunks == [from : Int, to : Int, tokens : Int]

CutTypeOK ==
  /\ cutCall \in CutInputs
  /\ stage \in {"called", "cutting", "done", "refused"}
  /\ start \in Nat
  /\ cut \in Seq(Chunks)

\* Every short stretch that begins before `before` lies whole in a chunk.
WholeBefore(before) ==
  \A i \in 1..Length, j \in 1..Length :
    i <= j /\ j - i <= Overlap /\ cutCall.ink[i] /\ cutCall.ink[j] /\ i <= before
    => \E c \in Range(cut) : c.from <= i /\ j <= c.to

\* The loop invariant.  The windows so far cover what lies before start, each
\* gave at most one chunk, and none of them reached the end.
LoopInv ==
  /\ stage = "called" => cut = <<>> /\ start = 0
  /\ stage = "cutting" =>
       /\ Valid
       /\ WholeBefore(start)
       /\ start >= Len(cut) * Stride
       /\ cut # <<>> => (Len(cut) - 1) * Stride + Window < Length
  /\ stage = "refused" => cut = <<>>

\* The inductive invariant.
CutInv == CutTypeOK /\ LoopInv /\ StretchesStayWhole /\ NoNeedlessChunk

-----------------------------------------------------------------------------
LEMMA Sizes ==
  ASSUME cutCall \in CutInputs
  PROVE  /\ Length \in Nat
         /\ Window \in Int /\ Overlap \in Int /\ Stride \in Int
         /\ cutCall.ink \in [1..Length -> BOOLEAN]
         /\ Valid => Stride > 0 /\ Overlap > 0 /\ Window = Stride + Overlap
<1>1. /\ cutCall.ink \in Seq(BOOLEAN) /\ cutCall.size \in Int /\ cutCall.overlap \in Int
  BY CutInputsAreCalls
<1>2. Length \in Nat /\ cutCall.ink \in [1..Length -> BOOLEAN]
  BY <1>1 DEF Length
<1>3. /\ Window \in Int /\ Overlap \in Int /\ Stride \in Int
      /\ Window = Stride + Overlap
  <2>1. Window \in Int
    BY <1>1 DEF Window, Units, RunesPerToken
  <2>2. Overlap \in Int
    BY <1>1 DEF Overlap, Units, RunesPerToken
  <2> QED
    BY <2>1, <2>2 DEF Stride
<1>4. Valid => Stride > 0 /\ Overlap > 0
  BY <1>1 DEF Valid, Window, Overlap, Stride, Units, RunesPerToken
<1> QED
  BY <1>2, <1>3, <1>4

LEMMA EndOfWindow ==
  ASSUME CutTypeOK, Valid, start < Length
  PROVE  /\ End \in Nat /\ start < End /\ End <= Length
         /\ End <= start + Window
         /\ ~ReachesEnd => End = start + Window /\ start + Window < Length
<1>1. start \in Nat /\ cutCall \in CutInputs
  BY DEF CutTypeOK
<1> QED
  BY <1>1, Sizes DEF End, ReachesEnd

LEMMA TokensAreCounted ==
  ASSUME NEW i \in Int, NEW j \in Int
  PROVE  TokensOf(i, j) \in Int
<1> DEFINE inked == {k \in i..j : cutCall.ink[k]}
           firsts == {k \in inked : k = i \/ ~cutCall.ink[k - 1]}
<1>1. IsFiniteSet(inked) /\ IsFiniteSet(firsts)
  BY FS_Interval, FS_Subset
<1>2. Cardinality(inked) \in Nat /\ Cardinality(firsts) \in Nat
  BY <1>1, FS_CardinalityType
<1> QED
  BY <1>2 DEF TokensOf, WordsIn, IdeographsIn, Inked

\* What a window leaves to the next one is no stretch that fits into it: a
\* short stretch that begins before the next window ends in this one.
LEMMA StretchFits ==
  ASSUME CutTypeOK, Valid, start < Length,
         NEW i \in 1..Length, NEW j \in 1..Length,
         i <= j, j - i <= Overlap, start < i,
         i <= start + Stride \/ ReachesEnd
  PROVE  start + 1 <= i /\ j <= End
<1>1. /\ start \in Nat /\ Length \in Nat /\ Window = Stride + Overlap
      /\ Window \in Int /\ Stride \in Int /\ Overlap \in Int
  BY Sizes DEF CutTypeOK
<1> QED
  BY <1>1, EndOfWindow DEF End, ReachesEnd

LEMMA OneMore ==
  ASSUME NEW n \in Int, NEW s \in Int
  PROVE  (n + 1) * s = n * s + s
OBVIOUS

-----------------------------------------------------------------------------
LEMMA CutInitInv == CutInit => CutInv
<1> SUFFICES ASSUME CutInit PROVE CutInv
  OBVIOUS
<1>1. cut = <<>> /\ stage = "called" /\ start = 0 /\ cutCall \in CutInputs
  BY DEF CutInit
<1>2. CutTypeOK
  BY <1>1 DEF CutTypeOK
<1> QED
  BY <1>1, <1>2 DEF CutInv, LoopInv, StretchesStayWhole, NoNeedlessChunk

LEMMA EmitKeeps == CutInv /\ Emit => CutInv'
<1> SUFFICES ASSUME CutInv, Emit PROVE CutInv'
  OBVIOUS
<1> DEFINE c == [from |-> start + 1, to |-> End,
                 tokens |-> IF cutCall.how = "tokens" THEN End - start
                            ELSE TokensOf(start + 1, End)]
<1>1. /\ CutTypeOK /\ Valid /\ start < Length /\ cut' = Append(cut, c)
      /\ stage = "cutting" /\ UNCHANGED cutCall
      /\ start \in Nat /\ cut \in Seq(Chunks) /\ cutCall \in CutInputs
  BY DEF CutInv, CutTypeOK, LoopInv, Emit
<1>2. /\ Length' = Length /\ Window' = Window /\ Overlap' = Overlap /\ Stride' = Stride
      /\ Valid' = Valid
  BY <1>1 DEF Length, Window, Overlap, Stride, Units, Valid, Blank
<1>3. /\ End \in Nat /\ start < End /\ End <= Length
      /\ ~ReachesEnd => start + Window < Length
  BY <1>1, EndOfWindow
<1>4. c \in Chunks
  BY <1>1, <1>3, TokensAreCounted DEF Chunks
<1>5. /\ cut' \in Seq(Chunks) /\ Len(cut') = Len(cut) + 1 /\ Len(cut) \in Nat
      /\ \A k \in 1..Len(cut) : cut'[k] = cut[k]
      /\ cut'[Len(cut) + 1] = c
  BY <1>1, <1>4
<1>6. Range(cut) \subseteq Range(cut') /\ c \in Range(cut')
  BY <1>1, <1>5 DEF Range
<1>7. ASSUME NEW i \in 1..Length, NEW j \in 1..Length,
             i <= j, j - i <= Overlap, cutCall.ink[i], cutCall.ink[j],
             i <= start + Stride \/ ReachesEnd
      PROVE  \E d \in Range(cut') : d.from <= i /\ j <= d.to
  <2>1. CASE i <= start
    BY <1>1, <1>6, <1>7, <2>1 DEF CutInv, LoopInv, WholeBefore
  <2>2. CASE start < i
    BY <1>1, <1>6, <1>7, <2>2, StretchFits
  <2> QED
    BY <1>1, <1>7, <2>1, <2>2, Sizes
<1>8. /\ Stride \in Int /\ Window \in Int /\ Length \in Nat /\ Stride > 0
  BY <1>1, Sizes
<1>9. /\ Len(cut) * Stride \in Int /\ Len(cut) * Stride <= start
      /\ (Len(cut) + 1) * Stride = Len(cut) * Stride + Stride
      /\ cut # <<>> => (Len(cut) - 1) * Stride + Window < Length
  BY <1>1, <1>5, <1>8, OneMore DEF CutInv, LoopInv
<1>10. NoNeedlessChunk'
  <2>1. Len(cut') - 2 = Len(cut) - 1 /\ (Len(cut') > 1 => cut # <<>>)
    BY <1>5
  <2> QED
    BY <1>2, <1>9, <2>1 DEF NoNeedlessChunk
<1>11. CASE ReachesEnd
  <2>1. stage' = "done" /\ start' = start
    BY <1>11 DEF Emit
  <2>2. StretchesStayWhole'
    BY <1>1, <1>2, <1>7, <1>11, <2>1 DEF StretchesStayWhole
  <2>3. CutTypeOK'
    BY <1>1, <1>5, <2>1 DEF CutTypeOK
  <2> QED
    BY <1>10, <2>1, <2>2, <2>3 DEF CutInv, LoopInv
<1>12. CASE ~ReachesEnd
  <2>1. stage' = "cutting" /\ start' = start + Stride
    BY <1>1, <1>12 DEF Emit
  <2>2. WholeBefore(start)'
    BY <1>1, <1>2, <1>7, <2>1 DEF WholeBefore
  <2>3. CutTypeOK'
    BY <1>1, <1>5, <1>8, <2>1 DEF CutTypeOK
  <2>4. start' >= (Len(cut) + 1) * Stride
    BY <1>1, <1>8, <1>9, <2>1
  <2>5. Len(cut) * Stride + Window < Length
    BY <1>1, <1>3, <1>8, <1>9, <1>12
  <2>6. Len(cut') - 1 = Len(cut)
    BY <1>5
  <2>7. LoopInv'
    BY <1>1, <1>2, <1>5, <2>1, <2>2, <2>4, <2>5, <2>6 DEF LoopInv
  <2> QED
    BY <1>10, <2>1, <2>3, <2>7 DEF CutInv, StretchesStayWhole
<1> QED
  BY <1>11, <1>12

LEMMA SkipKeeps == CutInv /\ Skip => CutInv'
<1> SUFFICES ASSUME CutInv, Skip PROVE CutInv'
  OBVIOUS
<1>1. /\ CutTypeOK /\ Valid /\ start < Length /\ stage = "cutting" /\ stage' = stage
      /\ start' = start + Stride /\ cut' = cut /\ cutCall' = cutCall
      /\ Blank(start + 1, End)
      /\ start \in Nat /\ cut \in Seq(Chunks) /\ cutCall \in CutInputs
  BY DEF CutInv, CutTypeOK, LoopInv, Skip
<1>2. /\ Length' = Length /\ Window' = Window /\ Overlap' = Overlap /\ Stride' = Stride
      /\ Valid' = Valid
  BY <1>1 DEF Length, Window, Overlap, Stride, Units, Valid, Blank
<1>3. /\ Stride \in Int /\ Window \in Int /\ Length \in Nat /\ Stride > 0
      /\ Overlap \in Int /\ Window = Stride + Overlap /\ Overlap > 0
  BY <1>1, Sizes
<1>4. CutTypeOK'
  BY <1>1, <1>3 DEF CutTypeOK
<1>5. WholeBefore(start)'
  <2> SUFFICES ASSUME NEW i \in 1..Length, NEW j \in 1..Length,
                      i <= j, j - i <= Overlap, cutCall.ink[i], cutCall.ink[j],
                      i <= start + Stride
               PROVE  \E c \in Range(cut) : c.from <= i /\ j <= c.to
    BY <1>1, <1>2 DEF WholeBefore
  <2>1. i <= start
    <3>1. CASE start < i
      <4>1. i \in (start + 1)..End
        BY <1>1, <1>3, <3>1 DEF End
      <4> QED
        BY <1>1, <4>1 DEF Blank
    <3> QED
      BY <1>1, <1>3, <3>1
  <2> QED
    BY <1>1, <2>1 DEF CutInv, LoopInv, WholeBefore
<1>6. start' >= Len(cut') * Stride'
  <2>1. Len(cut) \in Nat /\ Len(cut) * Stride \in Int /\ start >= Len(cut) * Stride
    BY <1>1, <1>3 DEF CutInv, LoopInv
  <2> QED
    BY <1>1, <1>2, <1>3, <2>1
<1>7. LoopInv'
  BY <1>1, <1>2, <1>5, <1>6 DEF CutInv, LoopInv
<1> QED
  BY <1>1, <1>2, <1>4, <1>7 DEF CutInv, StretchesStayWhole, NoNeedlessChunk

LEMMA RunOffKeeps == CutInv /\ RunOff => CutInv'
<1> SUFFICES ASSUME CutInv, RunOff PROVE CutInv'
  OBVIOUS
<1>1. /\ CutTypeOK /\ start >= Length /\ stage = "cutting" /\ start \in Nat
      /\ stage' = IF cutCall.how = "characters" /\ cut = <<>> THEN "refused" ELSE "done"
      /\ start' = start /\ cut' = cut /\ cutCall' = cutCall
      /\ WholeBefore(start) /\ cutCall \in CutInputs
  BY DEF CutInv, CutTypeOK, LoopInv, RunOff
<1>2. Length' = Length /\ Window' = Window /\ Overlap' = Overlap /\ Stride' = Stride
  BY <1>1 DEF Length, Window, Overlap, Stride, Units
<1>3. StretchesStayWhole'
  BY <1>1, <1>2, Sizes DEF StretchesStayWhole, WholeBefore
<1> QED
  BY <1>1, <1>2, <1>3 DEF CutInv, CutTypeOK, LoopInv, NoNeedlessChunk

LEMMA CutStepInv == CutInv /\ [CutNext \/ CutReturned]_cutVars => CutInv'
<1> SUFFICES ASSUME CutInv, [CutNext \/ CutReturned]_cutVars PROVE CutInv'
  OBVIOUS
<1>1. CASE Refuse
  BY <1>1 DEF Refuse, CutInv, CutTypeOK, LoopInv, StretchesStayWhole, NoNeedlessChunk,
              Length, Window, Overlap, Stride, Units
<1>2. CASE Accept
  <2>1. /\ stage' = "cutting" /\ start' = 0 /\ cut' = <<>> /\ cutCall' = cutCall /\ Valid
        /\ CutTypeOK
    BY <1>2 DEF Accept, CutInv, LoopInv
  <2>2. Length \in Nat /\ Stride \in Int
    BY <2>1, Sizes DEF CutTypeOK
  <2>3. CutTypeOK'
    BY <2>1 DEF CutTypeOK
  <2>4. Valid' /\ WholeBefore(start)' /\ start' >= Len(cut') * Stride'
    BY <2>1, <2>2 DEF Valid, Blank, WholeBefore, Length, Stride, Window, Overlap, Units
  <2> QED
    BY <2>1, <2>3, <2>4 DEF CutInv, LoopInv, StretchesStayWhole, NoNeedlessChunk
<1>3. CASE Emit
  BY <1>3, EmitKeeps
<1>4. CASE Skip
  BY <1>4, SkipKeeps
<1>5. CASE RunOff
  BY <1>5, RunOffKeeps
<1>6. CASE UNCHANGED cutVars
  BY <1>6 DEF cutVars, CutInv, CutTypeOK, LoopInv, WholeBefore, StretchesStayWhole,
              NoNeedlessChunk, Valid, Blank, Length, Window, Overlap, Stride, Units
<1> QED
  BY <1>1, <1>2, <1>3, <1>4, <1>5, <1>6 DEF CutNext, CutReturned

\* Whatever the text, the chunk size and the overlap, the chunks hold every
\* short stretch whole (ChunkByTokenSize).
THEOREM NoStretchIsLost == CutSpec => []StretchesStayWhole
<1>1. CutInv => StretchesStayWhole
  BY DEF CutInv
<1> QED
  BY <1>1, CutInitInv, CutStepInv, PTL DEF CutSpec

\* And no chunk is cut that the stride does not need.
THEOREM ChunksAreNeeded == CutSpec => []NoNeedlessChunk
<1>1. CutInv => NoNeedlessChunk
  BY DEF CutInv
<1> QED
  BY <1>1, CutInitInv, CutStepInv, PTL DEF CutSpec
-----------------------------------------------------------------------------
=============================================================================
