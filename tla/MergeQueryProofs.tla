--------------------------- MODULE MergeQueryProofs ---------------------------
(***************************************************************************)
(* Proofs about a merge of descriptions (Summarize) and about a query      *)
(* (QueryModes).  Both compute with folds over sequences: for each there   *)
(* is a lemma that lists the values the fold goes through (a), from which  *)
(* the rest follows by induction over the length (InductionUpTo).          *)
(***************************************************************************)
EXTENDS Summarize, QueryModes, Induction, FiniteSetTheorems, SequenceTheorems, TLAPS

-----------------------------------------------------------------------------
(* The query: folds.                                                       *)

UniqueFold(s, f) ==
  f = [t \in SUBSET DOMAIN s |->
         IF t = {} THEN <<>> ELSE IF Contains(f[t \ {Max(t)}], s[Max(t)]) THEN f[t \ {Max(t)}] ELSE Append(f[t \ {Max(t)}], s[Max(t)])]

LEMMA UniqueFoldIs ==
  ASSUME NEW s
  PROVE  Unique(s) = (CHOOSE f : UniqueFold(s, f))[DOMAIN s]
BY Zenon DEF Unique, FoldLeft, MapThenFoldSet, UniqueFold

UniqueTraces(s, n, a) ==
  /\ a[0] = <<>> /\ a[n] = Unique(s)
  /\ \A k \in 1..n : a[k] = IF Contains(a[k - 1], s[k]) THEN a[k - 1] ELSE Append(a[k - 1], s[k])

LEMMA UniqueTrace ==
  ASSUME NEW s, NEW n \in Nat, DOMAIN s = 1..n, NEW V, <<>> \in V,
         \A v \in V, k \in 1..n : (IF Contains(v, s[k]) THEN v ELSE Append(v, s[k])) \in V
  PROVE  \E a \in [0..n -> V] : UniqueTraces(s, n, a)
<1> DEFINE h == [k \in 1..n |-> [v \in V |-> IF Contains(v, s[k]) THEN v ELSE Append(v, s[k])]]
<1>1. \A v \in V, k \in 1..n : h[k][v] = IF Contains(v, s[k]) THEN v ELSE Append(v, s[k])
  OBVIOUS
<1>2. \A v \in V, k \in 1..n : h[k][v] \in V
  OBVIOUS
<1> HIDE DEF h
<1>3. PICK f \in [SUBSET (1..n) -> V] : Steps(n, V, <<>>, h, f)
  BY <1>2, IterationSteps
<1>4. UniqueFold(s, f)
  <2>1. ASSUME NEW t \in SUBSET (1..n), t # {}
        PROVE  f[t] = IF Contains(f[t \ {Max(t)}], s[Max(t)]) THEN f[t \ {Max(t)}] ELSE Append(f[t \ {Max(t)}], s[Max(t)])
    <3>1. Max(t) \in 1..n /\ f[t \ {Max(t)}] \in V /\ f[t] = h[Max(t)][f[t \ {Max(t)}]]
      BY <1>3, <2>1 DEF Steps
    <3> QED
      BY <1>1, <3>1
  <2>2. f[{}] = <<>>
    BY <1>3 DEF Steps
  <2>3. \A t \in SUBSET (1..n) : f[t] = IF t = {} THEN <<>> ELSE IF Contains(f[t \ {Max(t)}], s[Max(t)]) THEN f[t \ {Max(t)}] ELSE Append(f[t \ {Max(t)}], s[Max(t)])
    BY <2>1, <2>2
  <2> QED
    BY <1>3, <2>3 DEF UniqueFold
<1> DEFINE g == CHOOSE q : UniqueFold(s, q)
<1>5. UniqueFold(s, g)
  BY <1>4
<1> HIDE DEF g
<1>6. Follows(n, V, <<>>, h, g)
  <2>1. \A t \in SUBSET (1..n) :
          g[t] = IF t = {} THEN <<>> ELSE IF Contains(g[t \ {Max(t)}], s[Max(t)]) THEN g[t \ {Max(t)}] ELSE Append(g[t \ {Max(t)}], s[Max(t)])
    BY <1>5 DEF UniqueFold
  <2>2. ASSUME NEW t \in SUBSET (1..n), t # {}, g[t \ {Max(t)}] \in V
        PROVE  g[t] = h[Max(t)][g[t \ {Max(t)}]]
    <3>1. Max(t) \in 1..n
      BY <1>3, <2>2 DEF Steps
    <3> QED
      BY <1>1, <2>1, <2>2, <3>1
  <2>3. g[{}] = <<>>
    BY <2>1
  <2> QED
    BY <2>2, <2>3 DEF Follows
<1>7. PICK a \in [0..n -> V] : Traces(n, <<>>, h, g, a)
  BY <1>2, <1>6, Trace
<1>8. ASSUME NEW k \in 1..n
      PROVE  a[k] = IF Contains(a[k - 1], s[k]) THEN a[k - 1] ELSE Append(a[k - 1], s[k])
  <2>1. k - 1 \in 0..n /\ a[k - 1] \in V /\ a[k] = h[k][a[k - 1]]
    BY <1>7 DEF Traces
  <2> QED
    BY <1>1, <2>1
<1>9. a[0] = <<>> /\ a[n] = Unique(s)
  BY <1>7, UniqueFoldIs DEF Traces, g
<1>10. UniqueTraces(s, n, a)
  BY <1>8, <1>9 DEF UniqueTraces
<1> QED
  BY <1>10

FetchFold(ids, f) ==
  f = [t \in SUBSET DOMAIN ids |->
         IF t = {} THEN <<>> ELSE IF ids[Max(t)] \in kv THEN Append(f[t \ {Max(t)}], ids[Max(t)]) ELSE f[t \ {Max(t)}]]

LEMMA FetchFoldIs ==
  ASSUME NEW ids
  PROVE  fetchChunks(ids) = (CHOOSE f : FetchFold(ids, f))[DOMAIN ids]
BY Zenon DEF fetchChunks, FoldLeft, MapThenFoldSet, FetchFold

FetchTraces(ids, n, a) ==
  /\ a[0] = <<>> /\ a[n] = fetchChunks(ids)
  /\ \A k \in 1..n : a[k] = IF ids[k] \in kv THEN Append(a[k - 1], ids[k]) ELSE a[k - 1]

LEMMA FetchTrace ==
  ASSUME NEW ids, NEW n \in Nat, DOMAIN ids = 1..n, NEW V, <<>> \in V,
         \A v \in V, k \in 1..n : (IF ids[k] \in kv THEN Append(v, ids[k]) ELSE v) \in V
  PROVE  \E a \in [0..n -> V] : FetchTraces(ids, n, a)
<1> DEFINE h == [k \in 1..n |-> [v \in V |-> IF ids[k] \in kv THEN Append(v, ids[k]) ELSE v]]
<1>1. \A v \in V, k \in 1..n : h[k][v] = IF ids[k] \in kv THEN Append(v, ids[k]) ELSE v
  OBVIOUS
<1>2. \A v \in V, k \in 1..n : h[k][v] \in V
  OBVIOUS
<1> HIDE DEF h
<1>3. PICK f \in [SUBSET (1..n) -> V] : Steps(n, V, <<>>, h, f)
  BY <1>2, IterationSteps
<1>4. FetchFold(ids, f)
  <2>1. ASSUME NEW t \in SUBSET (1..n), t # {}
        PROVE  f[t] = IF ids[Max(t)] \in kv THEN Append(f[t \ {Max(t)}], ids[Max(t)]) ELSE f[t \ {Max(t)}]
    <3>1. Max(t) \in 1..n /\ f[t \ {Max(t)}] \in V /\ f[t] = h[Max(t)][f[t \ {Max(t)}]]
      BY <1>3, <2>1 DEF Steps
    <3> QED
      BY <1>1, <3>1
  <2>2. f[{}] = <<>>
    BY <1>3 DEF Steps
  <2>3. \A t \in SUBSET (1..n) : f[t] = IF t = {} THEN <<>> ELSE IF ids[Max(t)] \in kv THEN Append(f[t \ {Max(t)}], ids[Max(t)]) ELSE f[t \ {Max(t)}]
    BY <2>1, <2>2
  <2> QED
    BY <1>3, <2>3 DEF FetchFold
<1> DEFINE g == CHOOSE q : FetchFold(ids, q)
<1>5. FetchFold(ids, g)
  BY <1>4
<1> HIDE DEF g
<1>6. Follows(n, V, <<>>, h, g)
  <2>1. \A t \in SUBSET (1..n) :
          g[t] = IF t = {} THEN <<>> ELSE IF ids[Max(t)] \in kv THEN Append(g[t \ {Max(t)}], ids[Max(t)]) ELSE g[t \ {Max(t)}]
    BY <1>5 DEF FetchFold
  <2>2. ASSUME NEW t \in SUBSET (1..n), t # {}, g[t \ {Max(t)}] \in V
        PROVE  g[t] = h[Max(t)][g[t \ {Max(t)}]]
    <3>1. Max(t) \in 1..n
      BY <1>3, <2>2 DEF Steps
    <3> QED
      BY <1>1, <2>1, <2>2, <3>1
  <2>3. g[{}] = <<>>
    BY <2>1
  <2> QED
    BY <2>2, <2>3 DEF Follows
<1>7. PICK a \in [0..n -> V] : Traces(n, <<>>, h, g, a)
  BY <1>2, <1>6, Trace
<1>8. ASSUME NEW k \in 1..n
      PROVE  a[k] = IF ids[k] \in kv THEN Append(a[k - 1], ids[k]) ELSE a[k - 1]
  <2>1. k - 1 \in 0..n /\ a[k - 1] \in V /\ a[k] = h[k][a[k - 1]]
    BY <1>7 DEF Traces
  <2> QED
    BY <1>1, <2>1
<1>9. a[0] = <<>> /\ a[n] = fetchChunks(ids)
  BY <1>7, FetchFoldIs DEF Traces, g
<1>10. FetchTraces(ids, n, a)
  BY <1>8, <1>9 DEF FetchTraces
<1> QED
  BY <1>10

RowTokensFold(seq, f) ==
  f = [t \in SUBSET DOMAIN seq |->
         IF t = {} THEN 0 ELSE f[t \ {Max(t)}] + Size[seq[Max(t)]]]

LEMMA RowTokensFoldIs ==
  ASSUME NEW seq
  PROVE  RowTokens(seq) = (CHOOSE f : RowTokensFold(seq, f))[DOMAIN seq]
BY Zenon DEF RowTokens, FoldLeft, MapThenFoldSet, RowTokensFold

RowTokensTraces(seq, n, a) ==
  /\ a[0] = 0 /\ a[n] = RowTokens(seq)
  /\ \A k \in 1..n : a[k] = a[k - 1] + Size[seq[k]]

LEMMA RowTokensTrace ==
  ASSUME NEW seq, NEW n \in Nat, DOMAIN seq = 1..n, NEW V, 0 \in V,
         \A v \in V, k \in 1..n : (v + Size[seq[k]]) \in V
  PROVE  \E a \in [0..n -> V] : RowTokensTraces(seq, n, a)
<1> DEFINE h == [k \in 1..n |-> [v \in V |-> v + Size[seq[k]]]]
<1>1. \A v \in V, k \in 1..n : h[k][v] = v + Size[seq[k]]
  OBVIOUS
<1>2. \A v \in V, k \in 1..n : h[k][v] \in V
  OBVIOUS
<1> HIDE DEF h
<1>3. PICK f \in [SUBSET (1..n) -> V] : Steps(n, V, 0, h, f)
  BY <1>2, IterationSteps
<1>4. RowTokensFold(seq, f)
  <2>1. ASSUME NEW t \in SUBSET (1..n), t # {}
        PROVE  f[t] = f[t \ {Max(t)}] + Size[seq[Max(t)]]
    <3>1. Max(t) \in 1..n /\ f[t \ {Max(t)}] \in V /\ f[t] = h[Max(t)][f[t \ {Max(t)}]]
      BY <1>3, <2>1 DEF Steps
    <3> QED
      BY <1>1, <3>1
  <2>2. f[{}] = 0
    BY <1>3 DEF Steps
  <2>3. \A t \in SUBSET (1..n) : f[t] = IF t = {} THEN 0 ELSE f[t \ {Max(t)}] + Size[seq[Max(t)]]
    BY <2>1, <2>2
  <2> QED
    BY <1>3, <2>3 DEF RowTokensFold
<1> DEFINE g == CHOOSE q : RowTokensFold(seq, q)
<1>5. RowTokensFold(seq, g)
  BY <1>4
<1> HIDE DEF g
<1>6. Follows(n, V, 0, h, g)
  <2>1. \A t \in SUBSET (1..n) :
          g[t] = IF t = {} THEN 0 ELSE g[t \ {Max(t)}] + Size[seq[Max(t)]]
    BY <1>5 DEF RowTokensFold
  <2>2. ASSUME NEW t \in SUBSET (1..n), t # {}, g[t \ {Max(t)}] \in V
        PROVE  g[t] = h[Max(t)][g[t \ {Max(t)}]]
    <3>1. Max(t) \in 1..n
      BY <1>3, <2>2 DEF Steps
    <3> QED
      BY <1>1, <2>1, <2>2, <3>1
  <2>3. g[{}] = 0
    BY <2>1
  <2> QED
    BY <2>2, <2>3 DEF Follows
<1>7. PICK a \in [0..n -> V] : Traces(n, 0, h, g, a)
  BY <1>2, <1>6, Trace
<1>8. ASSUME NEW k \in 1..n
      PROVE  a[k] = a[k - 1] + Size[seq[k]]
  <2>1. k - 1 \in 0..n /\ a[k - 1] \in V /\ a[k] = h[k][a[k - 1]]
    BY <1>7 DEF Traces
  <2> QED
    BY <1>1, <2>1
<1>9. a[0] = 0 /\ a[n] = RowTokens(seq)
  BY <1>7, RowTokensFoldIs DEF Traces, g
<1>10. RowTokensTraces(seq, n, a)
  BY <1>8, <1>9 DEF RowTokensTraces
<1> QED
  BY <1>10

-----------------------------------------------------------------------------
(* The query: sequences of ids.                                            *)

\* The first n elements, and the sets of first elements.
First(s, n) == {s[i] : i \in 1..n}
IsHead(s, H) == \E n \in 0..Len(s) : H = First(s, n)
Once(s) == \A i, j \in DOMAIN s : s[i] = s[j] => i = j

LEMMA WholeIsFirst ==
  ASSUME NEW S, NEW s \in Seq(S)
  PROVE  ToSet(s) = First(s, Len(s)) /\ IsHead(s, ToSet(s)) /\ IsHead(s, {}) /\ First(s, 0) = {}
<1>1. Len(s) \in Nat /\ DOMAIN s = 1..Len(s) /\ 1..0 = {}
  OBVIOUS
<1>2. ToSet(s) = First(s, Len(s)) /\ First(s, 0) = {}
  BY <1>1 DEF ToSet, First
<1> QED
  BY <1>1, <1>2 DEF IsHead

HeadsJoin(s, t) ==
  /\ ToSet(s \o t) = ToSet(s) \cup ToSet(t)
  /\ \A H : IsHead(s, H) => IsHead(s \o t, H)
  /\ \A H : IsHead(t, H) => IsHead(s \o t, ToSet(s) \cup H)

LEMMA HeadsOfConcat ==
  ASSUME NEW S, NEW s \in Seq(S), NEW t \in Seq(S)
  PROVE  HeadsJoin(s, t)
<1> DEFINE m == Len(s)
           n == Len(t)
           st == s \o t
<1>1. /\ m \in Nat /\ n \in Nat /\ Len(st) = m + n /\ st \in Seq(S)
      /\ DOMAIN st = 1..(m + n) /\ DOMAIN s = 1..m /\ DOMAIN t = 1..n
      /\ \A i \in 1..m : st[i] = s[i]
      /\ \A i \in (m + 1)..(m + n) : st[i] = t[i - m]
  OBVIOUS
<1> HIDE DEF m, n, st
<1>2. ASSUME NEW k \in 0..m
      PROVE  First(st, k) = First(s, k)
  <2>1. \A i \in 1..k : i \in 1..m
    BY <1>1
  <2> QED
    BY <1>1, <2>1 DEF First
<1>3. ASSUME NEW k \in 0..n
      PROVE  First(st, m + k) = ToSet(s) \cup First(t, k)
  <2>1. ASSUME NEW x \in First(st, m + k)
        PROVE  x \in ToSet(s) \cup First(t, k)
    <3>1. PICK i \in 1..(m + k) : x = st[i]
      BY DEF First
    <3>2. CASE i \in 1..m
      BY <1>1, <3>1, <3>2 DEF ToSet
    <3>3. CASE i \notin 1..m
      <4>1. i \in (m + 1)..(m + n) /\ i - m \in 1..k
        BY <1>1, <3>3
      <4> QED
        BY <1>1, <3>1, <4>1 DEF First
    <3> QED
      BY <3>2, <3>3
  <2>2. ASSUME NEW i \in 1..m
        PROVE  s[i] \in First(st, m + k)
    <3>1. i \in 1..(m + k)
      BY <1>1
    <3> QED
      BY <1>1, <3>1 DEF First
  <2>3. ASSUME NEW i \in 1..k
        PROVE  t[i] \in First(st, m + k)
    <3>1. i + m \in 1..(m + k) /\ i + m \in (m + 1)..(m + n) /\ (i + m) - m = i
      BY <1>1
    <3>2. st[i + m] = t[i]
      BY <1>1, <3>1
    <3> QED
      BY <3>1, <3>2 DEF First
  <2>4. \A x \in ToSet(s) : x \in First(st, m + k)
    BY <1>1, <2>2 DEF ToSet
  <2>5. \A x \in First(t, k) : x \in First(st, m + k)
    BY <2>3 DEF First
  <2> QED
    BY <2>1, <2>4, <2>5
<1>4. ToSet(st) = ToSet(s) \cup ToSet(t)
  <2>1. ToSet(st) = First(st, m + n) /\ ToSet(t) = First(t, n)
    BY <1>1 DEF ToSet, First
  <2> QED
    BY <1>1, <1>3, <2>1
<1>5. ASSUME NEW H, IsHead(s, H)
      PROVE  IsHead(st, H)
  <2>1. PICK k \in 0..m : H = First(s, k)
    BY <1>5 DEF IsHead, m
  <2>2. k \in 0..Len(st)
    BY <1>1
  <2> QED
    BY <1>2, <2>1, <2>2 DEF IsHead
<1>6. ASSUME NEW H, IsHead(t, H)
      PROVE  IsHead(st, ToSet(s) \cup H)
  <2>1. PICK k \in 0..n : H = First(t, k)
    BY <1>6 DEF IsHead, n
  <2>2. m + k \in 0..Len(st)
    BY <1>1
  <2> QED
    BY <1>3, <2>1, <2>2 DEF IsHead
<1> QED
  BY <1>4, <1>5, <1>6 DEF st, HeadsJoin

\* Of two elements the one in a head comes first, where none is repeated.
LEMMA HeadComesFirst ==
  ASSUME NEW S, NEW s \in Seq(S), Once(s), NEW H, IsHead(s, H),
         NEW j \in DOMAIN s, NEW k \in DOMAIN s, j <= k, s[k] \in H
  PROVE  s[j] \in H
<1>1. PICK n \in 0..Len(s) : H = First(s, n)
  BY DEF IsHead
<1>2. PICK i \in 1..n : s[k] = s[i]
  BY <1>1 DEF First
<1>3. i \in DOMAIN s
  OBVIOUS
<1>4. i = k
  BY <1>2, <1>3 DEF Once
<1>5. j \in 1..n
  BY <1>4
<1> QED
  BY <1>1, <1>5 DEF First

\* Unique keeps the first occurrence of each element, in order: what comes
\* first before comes first afterwards.
LEMMA UniqueIs ==
  ASSUME NEW S, NEW s \in Seq(S)
  PROVE  /\ Unique(s) \in Seq(S) /\ Once(Unique(s)) /\ ToSet(Unique(s)) = ToSet(s)
         /\ \A H : IsHead(s, H) => IsHead(Unique(s), H)
<1> DEFINE n == Len(s)
<1>1. n \in Nat /\ DOMAIN s = 1..n /\ \A k \in 1..n : s[k] \in S
  OBVIOUS
<1> HIDE DEF n
<1>2. PICK a \in [0..n -> Seq(S)] : UniqueTraces(s, n, a)
  <2> DEFINE V == Seq(S)
  <2>1. <<>> \in V
    OBVIOUS
  <2>2. \A v \in V, k \in 1..n : (IF Contains(v, s[k]) THEN v ELSE Append(v, s[k])) \in V
    BY <1>1
  <2> HIDE DEF V
  <2>3. \E a \in [0..n -> V] : UniqueTraces(s, n, a)
    BY <1>1, <2>1, <2>2, UniqueTrace
  <2> QED
    BY <2>3 DEF V
<1> DEFINE Good(k, v) == /\ Once(v) /\ ToSet(v) = First(s, k)
                         /\ \A m \in 0..k : IsHead(v, First(s, m))
           K == {k \in 0..n : Good(k, a[k])}
<1>3. 0 \in K
  <2>1. a[0] = <<>> /\ 0 \in 0..n
    BY <1>1, <1>2 DEF UniqueTraces
  <2>2. <<>> \in Seq(S) /\ DOMAIN <<>> = {}
    OBVIOUS
  <2>3. First(s, 0) = {} /\ ToSet(<<>>) = {} /\ IsHead(<<>>, {})
    BY <2>2, WholeIsFirst DEF ToSet
  <2>4. \A m \in 0..0 : m = 0
    OBVIOUS
  <2>5. Once(<<>>)
    BY <2>2 DEF Once
  <2>6. Good(0, <<>>)
    BY <2>3, <2>4, <2>5
  <2> QED
    BY <2>1, <2>6
<1>4. ASSUME NEW k \in 1..n, k - 1 \in K
      PROVE  k \in K
  <2> DEFINE v == a[k - 1]
             x == s[k]
  <2>1. v \in Seq(S) /\ x \in S /\ Good(k - 1, v) /\ k \in 0..n
    BY <1>1, <1>2, <1>4
  <2>2. a[k] = IF Contains(v, x) THEN v ELSE Append(v, x)
    BY <1>2 DEF UniqueTraces
  <2> HIDE DEF v, x
  <2>3. First(s, k) = First(s, k - 1) \cup {x}
    <3>1. 1..k = 1..(k - 1) \cup {k}
      BY <1>1
    <3> QED
      BY <3>1 DEF First, x
  <2>4. \A m \in 0..k : m \in 0..(k - 1) \/ m = k
    BY <1>1
  <2>5. Contains(v, x) <=> x \in ToSet(v)
    BY <2>1 DEF Contains, ToSet
  <2>6. CASE Contains(v, x)
    <3>1. First(s, k) = ToSet(v) /\ IsHead(v, ToSet(v))
      BY <2>1, <2>3, <2>5, <2>6, WholeIsFirst
    <3>2. Good(k, v)
      BY <2>1, <2>4, <3>1
    <3> QED
      BY <2>1, <2>2, <2>6, <3>2
  <2>7. CASE ~Contains(v, x)
    <3> DEFINE w == Append(v, x)
    <3>1. <<x>> \in Seq(S) /\ w = v \o <<x>> /\ w \in Seq(S) /\ ToSet(<<x>>) = {x}
      BY <2>1 DEF ToSet
    <3> HIDE DEF w
    <3>8. /\ ToSet(v \o <<x>>) = ToSet(v) \cup ToSet(<<x>>)
          /\ \A H : IsHead(v, H) => IsHead(v \o <<x>>, H)
      <4>1. v \in Seq(S) /\ <<x>> \in Seq(S)
        BY <2>1, <3>1
      <4>2. HeadsJoin(v, <<x>>)
        BY <4>1, HeadsOfConcat
      <4> QED
        BY <4>2 DEF HeadsJoin
    <3>2. ToSet(w) = First(s, k)
      BY <2>1, <2>3, <3>1, <3>8
    <3>3. \A H : IsHead(v, H) => IsHead(w, H)
      BY <3>1, <3>8
    <3>4. IsHead(w, ToSet(w))
      BY <3>1, WholeIsFirst
    <3>5. \A m \in 0..k : IsHead(w, First(s, m))
      BY <2>1, <2>4, <3>2, <3>3, <3>4
    <3>6. Once(w)
      <4>1. PICK l \in Nat : DOMAIN v = 1..l /\ DOMAIN w = 1..(l + 1) /\ w[l + 1] = x
                             /\ \A i \in 1..l : w[i] = v[i]
        BY <2>1 DEF w
      <4>2. \A i \in 1..l : w[i] # x
        BY <2>5, <2>7, <4>1 DEF ToSet
      <4>3. ASSUME NEW i \in DOMAIN w, NEW j \in DOMAIN w, w[i] = w[j]
            PROVE  i = j
        <5>1. (i \in 1..l \/ i = l + 1) /\ (j \in 1..l \/ j = l + 1)
          BY <4>1
        <5>2. CASE i \in 1..l /\ j \in 1..l
          BY <2>1, <4>1, <4>3, <5>2 DEF Once
        <5>3. CASE i \in 1..l /\ j = l + 1
          BY <4>1, <4>2, <4>3, <5>3
        <5>4. CASE i = l + 1 /\ j \in 1..l
          BY <4>1, <4>2, <4>3, <5>4
        <5> QED
          BY <5>1, <5>2, <5>3, <5>4
      <4> QED
        BY <4>3 DEF Once
    <3>7. Good(k, w)
      BY <3>2, <3>5, <3>6
    <3> QED
      BY <2>1, <2>2, <2>7, <3>7 DEF w
  <2> QED
    BY <2>6, <2>7
<1>5. n \in K
  <2> HIDE DEF K
  <2>1. \A k \in 0..n : k \in K
    BY <1>1, <1>3, <1>4, InductionUpTo
  <2> QED
    BY <1>1, <2>1
<1>6. a[n] = Unique(s) /\ a[n] \in Seq(S) /\ ToSet(s) = First(s, n)
  BY <1>1, <1>2, WholeIsFirst DEF UniqueTraces, n
<1>7. ASSUME NEW H, IsHead(s, H)
      PROVE  IsHead(Unique(s), H)
  <2>1. PICK m \in 0..n : H = First(s, m)
    BY <1>7 DEF IsHead, n
  <2> QED
    BY <1>5, <1>6, <2>1
<1> QED
  BY <1>5, <1>6, <1>7

\* A range over a finite set meets each of its elements.
LEMMA RangedMeetsAll ==
  ASSUME NEW S, IsFiniteSet(S), NEW es \in SetToSeqs(S)
  PROVE  es \in Seq(S) /\ ToSet(es) = S
<1> DEFINE n == Cardinality(S)
<1>1. n \in Nat
  BY FS_CardinalityType
<1>2. es \in [1..n -> S] /\ \A i, j \in 1..n : i # j => es[i] # es[j]
  BY DEF SetToSeqs
<1> HIDE DEF n
<1>3. es \in Seq(S)
  BY <1>1, <1>2
<1>4. ASSUME NEW x \in S, x \notin ToSet(es)
      PROVE  FALSE
  <2> DEFINE T == S \ {x}
  <2>1. IsFiniteSet(T) /\ Cardinality(T) = n - 1
    BY FS_RemoveElement DEF n
  <2>2. es \in [1..n -> T]
    BY <1>2, <1>4 DEF ToSet
  <2>3. IsFiniteSet(1..n) /\ Cardinality(1..n) = n
    BY <1>1, FS_Interval
  <2>4. Cardinality(T) < Cardinality(1..n)
    BY <1>1, <2>1, <2>3
  <2> HIDE DEF T
  <2>5. \E i, j \in 1..n : i # j /\ es[i] = es[j]
    BY <2>1, <2>2, <2>3, <2>4, FS_PigeonHole
  <2> QED
    BY <1>2, <2>5
<1>5. \A x \in ToSet(es) : x \in S
  BY <1>2 DEF ToSet
<1> QED
  BY <1>3, <1>4, <1>5

\* Maps: their keys and values, and what assigning them to each other makes.
LEMMA MapIs ==
  ASSUME NEW K, NEW m \in Maps(K)
  PROVE  /\ DOMAIN m \subseteq K
         /\ \A key \in DOMAIN m : m[key] \in Lists /\ m[key] \in Seq(Chunks)
<1>1. PICK D \in SUBSET K : m \in [D -> Lists]
  BY DEF Maps
<1>2. Lists \subseteq Seq(Chunks)
  BY QueryConstants
<1> QED
  BY <1>1, <1>2

LEMMA IsMap ==
  ASSUME NEW K, NEW D \in SUBSET K, NEW m \in [D -> Lists]
  PROVE  m \in Maps(K)
BY DEF Maps

LEMMA AssignIs ==
  ASSUME NEW K, NEW m \in Maps(K), NEW n \in Maps(K)
  PROVE  Assign(m, n) \in Maps(K)
<1> DEFINE D == DOMAIN m \cup DOMAIN n
<1>1. D \in SUBSET K
  BY MapIs
<1>2. \A key \in D : (IF key \in DOMAIN n THEN n[key] ELSE m[key]) \in Lists
  BY MapIs
<1>3. Assign(m, n) \in [D -> Lists]
  BY <1>2 DEF Assign
<1> HIDE DEF D
<1> QED
  BY <1>1, <1>3, IsMap

LEMMA NodesAre ==
  ASSUME graphNodes \in Maps(Ents), NEW names
  PROVE  NodesOf(names) \in Maps(Ents)
<1> DEFINE D == names \cap DOMAIN graphNodes
<1>1. D \in SUBSET Ents /\ \A e \in D : graphNodes[e] \in Lists
  BY MapIs
<1>2. NodesOf(names) \in [D -> Lists]
  BY <1>1 DEF NodesOf
<1> HIDE DEF D
<1> QED
  BY <1>1, <1>2, IsMap

\* The keys of a relSet.
EdgeKeys == {edgeKey(rel) : rel \in Rels}

LEMMA EdgesAre ==
  ASSUME graphEdges \in Seq(Edges), NEW set \in SUBSET DOMAIN graphEdges
  PROVE  EdgesOf(set) \in Maps(EdgeKeys)
<1> DEFINE D == {edgeKey(graphEdges[k].rel) : k \in set}
           With(key) == {k \in set : edgeKey(graphEdges[k].rel) = key}
<1>1. PICK n \in Nat : DOMAIN graphEdges = 1..n
  OBVIOUS
<1>2. \A k \in DOMAIN graphEdges : graphEdges[k].rel \in Rels /\ graphEdges[k].src \in Lists
  <2>1. \A k \in DOMAIN graphEdges : graphEdges[k] \in Edges
    OBVIOUS
  <2> QED
    BY <2>1 DEF Edges
<1>3. D \in SUBSET EdgeKeys
  BY <1>2 DEF EdgeKeys
<1>4. ASSUME NEW key \in D
      PROVE  graphEdges[Max(With(key))].src \in Lists
  <2>1. With(key) \subseteq 1..n /\ With(key) # {}
    BY <1>1
  <2> HIDE DEF With
  <2>2. Max(With(key)) \in 1..n
    BY <2>1, MaxOfInterval
  <2> QED
    BY <1>1, <1>2, <2>2
<1>5. EdgesOf(set) = [key \in D |-> graphEdges[Max(With(key))].src]
  BY DEF EdgesOf
<1> HIDE DEF D, With
<1>6. EdgesOf(set) \in [D -> Lists]
  BY <1>4, <1>5
<1> QED
  BY <1>3, <1>6, IsMap

LEMMA KeysAreFinite == IsFiniteSet(Ents) /\ IsFiniteSet(EdgeKeys)
<1>1. IsFiniteSet(Ents) /\ IsFiniteSet(SUBSET Ents)
  BY QueryConstants, FS_SUBSET
<1>2. EdgeKeys \subseteq SUBSET Ents
  BY QueryConstants DEF EdgeKeys, edgeKey
<1> QED
  BY <1>1, <1>2, FS_Subset

LEMMA MapIsFinite ==
  ASSUME NEW K, IsFiniteSet(K), NEW m \in Maps(K)
  PROVE  IsFiniteSet(DOMAIN m)
BY MapIs, FS_Subset

\* The chunks of what is ranged over.
LEMMA SourceChunksAre ==
  ASSUME NEW K, IsFiniteSet(K), NEW m \in Maps(K), NEW keys \in Ranged(m)
  PROVE  SourceChunks(keys, m) \in Seq(Chunks) /\ ToSet(SourceChunks(keys, m)) = ChunksOf(m)
<1> DEFINE S == DOMAIN m
           ss == [k \in DOMAIN keys |-> m[keys[k]]]
<1>1. keys \in Seq(S) /\ ToSet(keys) = S
  <2>1. IsFiniteSet(S) /\ keys \in SetToSeqs(S)
    BY MapIsFinite DEF Ranged
  <2> HIDE DEF S
  <2> QED
    BY <2>1, RangedMeetsAll
<1>2. \A key \in S : m[key] \in Seq(Chunks)
  BY MapIs
<1>3. ss \in Seq(Seq(Chunks)) /\ DOMAIN ss = DOMAIN keys
  <2> DEFINE V == Seq(Chunks)
  <2>1. PICK n \in Nat : DOMAIN keys = 1..n /\ \A k \in 1..n : keys[k] \in S
    BY <1>1
  <2>2. \A k \in 1..n : m[keys[k]] \in V
    BY <1>2, <2>1
  <2>3. ss = [k \in 1..n |-> m[keys[k]]]
    BY <2>1
  <2> HIDE DEF V, ss, S
  <2>4. ss \in Seq(V) /\ DOMAIN ss = 1..n
    BY <2>2, <2>3
  <2> QED
    BY <2>1, <2>4 DEF V
<1>4. SourceChunks(keys, m) = FlattenSeq(ss)
  BY DEF SourceChunks
<1>5. {ToSet(ss[i]) : i \in DOMAIN ss} = {ToSet(m[key]) : key \in S}
  <2>1. \A i \in DOMAIN keys : ss[i] = m[keys[i]] /\ keys[i] \in S
    BY <1>1
  <2>2. \A key \in S : \E i \in DOMAIN keys : keys[i] = key
    BY <1>1 DEF ToSet
  <2>3. DOMAIN ss = DOMAIN keys
    BY <1>3
  <2> HIDE DEF ss, S
  <2>4. ASSUME NEW i \in DOMAIN ss
        PROVE  \E key \in S : ToSet(ss[i]) = ToSet(m[key])
    BY <2>1, <2>3
  <2>5. ASSUME NEW key \in S
        PROVE  \E i \in DOMAIN ss : ToSet(ss[i]) = ToSet(m[key])
    BY <2>1, <2>2, <2>3
  <2> QED
    BY <2>4, <2>5
<1>6. ChunksOf(m) = UNION {ToSet(m[key]) : key \in S}
  BY DEF ChunksOf
<1> HIDE DEF ss, S
<1> QED
  BY <1>3, <1>4, <1>5, <1>6, FlattenIsSeq, FlattenHolds

\* Elements of t are elements of s, in the same order.
Within(t, s) ==
  /\ Len(t) <= Len(s)
  /\ \A j, k \in DOMAIN t : j < k =>
       \E p, q \in DOMAIN s : p < q /\ t[j] = s[p] /\ t[k] = s[q]

LEMMA FetchedAreWithin ==
  ASSUME NEW S, NEW ids \in Seq(S)
  PROVE  fetchChunks(ids) \in Seq(S) /\ Within(fetchChunks(ids), ids)
<1> DEFINE n == Len(ids)
<1>1. n \in Nat /\ DOMAIN ids = 1..n /\ \A k \in 1..n : ids[k] \in S
  OBVIOUS
<1> HIDE DEF n
<1>2. PICK a \in [0..n -> Seq(S)] : FetchTraces(ids, n, a)
  <2> DEFINE V == Seq(S)
  <2>1. <<>> \in V
    OBVIOUS
  <2>2. \A v \in V, k \in 1..n : (IF ids[k] \in kv THEN Append(v, ids[k]) ELSE v) \in V
    BY <1>1
  <2> HIDE DEF V
  <2>3. \E a \in [0..n -> V] : FetchTraces(ids, n, a)
    BY <1>1, <2>1, <2>2, FetchTrace
  <2> QED
    BY <2>3 DEF V
<1> DEFINE Met(k, v) ==
             /\ Len(v) <= k
             /\ \A i \in DOMAIN v : \E p \in 1..k : v[i] = ids[p]
             /\ \A i, j \in DOMAIN v : i < j =>
                  \E p, q \in 1..k : p < q /\ v[i] = ids[p] /\ v[j] = ids[q]
           K == {k \in 0..n : Met(k, a[k])}
<1>3. 0 \in K
  <2>1. a[0] = <<>> /\ 0 \in 0..n /\ Len(<<>>) = 0 /\ DOMAIN <<>> = {}
    BY <1>1, <1>2 DEF FetchTraces
  <2> QED
    BY <2>1
<1>4. ASSUME NEW k \in 1..n, k - 1 \in K
      PROVE  k \in K
  <2> DEFINE v == a[k - 1]
             x == ids[k]
  <2>1. v \in Seq(S) /\ x \in S /\ Met(k - 1, v) /\ k \in 0..n /\ k \in Nat
    BY <1>1, <1>2, <1>4
  <2>2. a[k] = IF x \in kv THEN Append(v, x) ELSE v
    BY <1>2 DEF FetchTraces
  <2>3. \A p \in 1..(k - 1) : p \in 1..k /\ p < k
    BY <2>1
  <2> HIDE DEF v
  <2>4. CASE x \notin kv
    <3>1. Met(k, v)
      BY <2>1, <2>3
    <3> QED
      BY <2>1, <2>2, <2>4, <3>1
  <2>5. CASE x \in kv
    <3> DEFINE w == Append(v, x)
    <3>1. PICK l \in Nat : /\ l = Len(v) /\ DOMAIN v = 1..l /\ Len(w) = l + 1 /\ DOMAIN w = 1..(l + 1)
                           /\ w[l + 1] = x /\ \A i \in 1..l : w[i] = v[i]
      <4>1. v \in Seq(S)
        BY <2>1
      <4> QED
        BY <4>1
    <3> HIDE DEF w
    <3>2. Len(w) <= k
      BY <2>1, <3>1
    <3>3. \A i \in 1..(l + 1) : i \in 1..l \/ i = l + 1
      BY <3>1
    <3>4. k \in 1..k
      BY <2>1
    <3>5. ASSUME NEW i \in DOMAIN w
          PROVE  \E p \in 1..k : w[i] = ids[p]
      <4>1. CASE i \in 1..l
        BY <2>1, <2>3, <3>1, <4>1
      <4>2. CASE i = l + 1
        BY <3>1, <3>4, <4>2
      <4> QED
        BY <3>1, <3>3, <4>1, <4>2
    <3>6. ASSUME NEW i \in DOMAIN w, NEW j \in DOMAIN w, i < j
          PROVE  \E p, q \in 1..k : p < q /\ w[i] = ids[p] /\ w[j] = ids[q]
      <4>1. i \in 1..l
        BY <3>1, <3>6
      <4>2. CASE j \in 1..l
        <5>1. PICK p, q \in 1..(k - 1) : p < q /\ v[i] = ids[p] /\ v[j] = ids[q]
          BY <2>1, <3>1, <3>6, <4>1, <4>2
        <5> QED
          BY <2>3, <3>1, <4>1, <4>2, <5>1
      <4>3. CASE j = l + 1
        <5>1. PICK p \in 1..(k - 1) : v[i] = ids[p]
          BY <2>1, <3>1, <4>1
        <5> QED
          BY <2>3, <3>1, <3>4, <4>1, <4>3, <5>1
      <4> QED
        BY <3>1, <3>3, <4>2, <4>3
    <3>7. Met(k, w)
      BY <3>2, <3>5, <3>6
    <3>8. a[k] = w
      BY <2>2, <2>5 DEF w
    <3>9. Met(k, a[k])
      BY <3>7, <3>8
    <3> QED
      BY <2>1, <3>9
  <2> QED
    BY <2>4, <2>5
<1>5. n \in K
  <2> HIDE DEF K
  <2>1. \A k \in 0..n : k \in K
    BY <1>1, <1>3, <1>4, InductionUpTo
  <2> QED
    BY <1>1, <2>1
<1>6. a[n] = fetchChunks(ids) /\ a[n] \in Seq(S)
  BY <1>1, <1>2 DEF FetchTraces
<1>7. Within(a[n], ids)
  BY <1>1, <1>5 DEF Within, n
<1> QED
  BY <1>6, <1>7

LEMMA CutIs ==
  ASSUME NEW S, NEW s \in Seq(S), NEW m \in Nat
  PROVE  /\ Cut(s, m) \in Seq(S) /\ Len(Cut(s, m)) <= m /\ Len(Cut(s, m)) <= Len(s)
         /\ \A i \in DOMAIN Cut(s, m) : i \in DOMAIN s /\ Cut(s, m)[i] = s[i]
         /\ Len(Cut(s, m)) < m => Cut(s, m) = s
<1> DEFINE l == IF Len(s) < m THEN Len(s) ELSE m
<1>1. l \in 0..Len(s) /\ Len(s) \in Nat /\ l <= m /\ (l < m => l = Len(s))
  OBVIOUS
<1>2. Cut(s, m) = SubSeq(s, 1, l)
  BY DEF Cut
<1> HIDE DEF l
<1>3. /\ SubSeq(s, 1, l) \in Seq(S) /\ Len(SubSeq(s, 1, l)) = l
      /\ \A i \in 1..l : i \in DOMAIN s /\ SubSeq(s, 1, l)[i] = s[i]
  BY <1>1
<1>4. l = Len(s) => SubSeq(s, 1, l) = s
  BY <1>1, <1>3
<1> QED
  BY <1>1, <1>2, <1>3, <1>4

-----------------------------------------------------------------------------
(* The query: the invariant.                                               *)

Halves == [ents : Maps(Ents), rels : Maps(EdgeKeys), ids : Seq(Chunks)]

QueryTypeOK ==
  /\ mode \in {"naive", "local", "global", "hybrid"} /\ param \in Params
  /\ graphNodes \in Maps(Ents) /\ graphEdges \in Seq(Edges) /\ kv \in SUBSET Chunks
  /\ queryAt \in {"start", "searchLocal", "expand", "searchGlobal", "lookUp", "merge",
                  "fetch", "complete", "done", "error"}
  /\ loc \in Halves /\ glo \in Halves
  /\ ents \in Maps(Ents) /\ rels \in Maps(EdgeKeys)
  /\ chunkIDs \in Seq(Chunks) /\ rows \in Seq(Chunks)

\* The ids of a half are the chunks of its entities and relationships, those
\* of one kind before what only the other kind has.
Ordered(ids, one, other) ==
  IsHead(ids, ChunksOf(one)) /\ ToSet(ids) = ChunksOf(one) \cup ChunksOf(other)

HalvesInOrder ==
  /\ queryAt \in {"start", "searchLocal"} => loc = NoHalf
  /\ queryAt \in {"start", "searchLocal", "expand", "searchGlobal"} => glo = NoHalf
  /\ queryAt \in {"searchGlobal", "lookUp", "merge", "fetch", "complete", "done"} =>
       Ordered(loc.ids, loc.ents, loc.rels)
  /\ queryAt \in {"merge", "fetch", "complete", "done"} =>
       Ordered(glo.ids, glo.rels, glo.ents)

\* Only a hybrid query has both halves.
HalvesByMode ==
  /\ queryAt \in {"searchLocal", "expand"} => mode \in {"local", "hybrid"}
  /\ queryAt \in {"searchGlobal", "lookUp"} => mode \in {"global", "hybrid"}
  /\ mode \in {"naive", "global"} => loc = NoHalf
  /\ mode \in {"naive", "local"} => glo = NoHalf

\* The context of a graph mode is made of both halves.
ContextOfHalves ==
  mode # "naive" /\ queryAt \in {"fetch", "complete", "done"} =>
    /\ ents = Assign(loc.ents, glo.ents)
    /\ rels = Assign(loc.rels, glo.rels)
    /\ chunkIDs = Cut(Unique(loc.ids \o glo.ids), param.ChunkTopK)

\* Only a query that is done shows and cites, and what it fetched.
AnswersFromRows ==
  /\ queryAt \notin {"complete", "done", "error"} => rows = <<>>
  /\ queryAt \in {"complete", "done"} => Within(rows, chunkIDs)
  /\ references = <<>> \/ (queryAt = "done" /\ references = rows)
  /\ shown = <<>> \/ queryAt = "done"

\* The inductive invariant.
QueryInv == QueryTypeOK /\ HalvesInOrder /\ HalvesByMode /\ ContextOfHalves /\ AnswersFromRows

LEMMA EmptyHalf ==
  /\ NoHalf \in Halves /\ \A K : <<>> \in Maps(K)
  /\ DOMAIN NoHalf.ents = {} /\ DOMAIN NoHalf.rels = {}
  /\ Ordered(NoHalf.ids, NoHalf.ents, NoHalf.rels) /\ Ordered(NoHalf.ids, NoHalf.rels, NoHalf.ents)
<1>1. NoHalf.ids = <<>> /\ NoHalf.ents = <<>> /\ NoHalf.rels = <<>>
  BY DEF NoHalf
<1>2. <<>> \in Seq(Chunks) /\ Len(<<>>) = 0 /\ DOMAIN <<>> = {} /\ <<>> \in [{} -> Lists]
  OBVIOUS
<1>3. \A K : <<>> \in Maps(K)
  BY <1>2, IsMap
<1>4. ChunksOf(<<>>) = {}
  BY <1>2 DEF ChunksOf
<1>5. ToSet(<<>>) = {} /\ IsHead(<<>>, {})
  BY <1>2, WholeIsFirst
<1>6. NoHalf \in Halves
  BY <1>2, <1>3 DEF NoHalf, Halves
<1> QED
  BY <1>1, <1>2, <1>3, <1>4, <1>5, <1>6 DEF Ordered

\* A half as it is collected.
LEMMA HalfCollected ==
  ASSUME NEW J, IsFiniteSet(J), NEW A \in Maps(J), NEW K, IsFiniteSet(K), NEW B \in Maps(K),
         NEW xs \in Ranged(A), NEW ys \in Ranged(B)
  PROVE  /\ Unique(SourceChunks(xs, A) \o SourceChunks(ys, B)) \in Seq(Chunks)
         /\ Ordered(Unique(SourceChunks(xs, A) \o SourceChunks(ys, B)), A, B)
<1> DEFINE s == SourceChunks(xs, A)
           t == SourceChunks(ys, B)
<1>2. s \in Seq(Chunks) /\ ToSet(s) = ChunksOf(A)
  BY SourceChunksAre
<1>3. t \in Seq(Chunks) /\ ToSet(t) = ChunksOf(B)
  BY SourceChunksAre
<1> HIDE DEF s, t
<1>4. ToSet(s \o t) = ToSet(s) \cup ToSet(t) /\ (\A H : IsHead(s, H) => IsHead(s \o t, H))
  <2>1. s \in Seq(Chunks) /\ t \in Seq(Chunks)
    BY <1>2, <1>3
  <2>2. HeadsJoin(s, t)
    BY <2>1, HeadsOfConcat
  <2> QED
    BY <2>2 DEF HeadsJoin
<1>5. s \o t \in Seq(Chunks)
  BY <1>2, <1>3
<1>6. IsHead(s, ToSet(s))
  BY <1>2, WholeIsFirst
<1>7. /\ Unique(s \o t) \in Seq(Chunks) /\ ToSet(Unique(s \o t)) = ToSet(s \o t)
      /\ \A H : IsHead(s \o t, H) => IsHead(Unique(s \o t), H)
  BY <1>5, UniqueIs
<1>8. Ordered(Unique(s \o t), A, B)
  BY <1>2, <1>3, <1>4, <1>6, <1>7 DEF Ordered
<1> QED
  BY <1>7, <1>8 DEF s, t

LEMMA QueryInitInv == QueryInit => QueryInv
<1> SUFFICES ASSUME QueryInit PROVE QueryInv
  OBVIOUS
<1>1. QueryTypeOK
  <2>1. graphEdges \in Seq(Edges)
    BY QueryConstants DEF QueryInit
  <2> QED
    BY <2>1, EmptyHalf DEF QueryInit, QueryTypeOK
<1>2. HalvesInOrder
  BY DEF QueryInit, HalvesInOrder
<1>3. HalvesByMode /\ ContextOfHalves /\ AnswersFromRows
  BY DEF QueryInit, HalvesByMode, ContextOfHalves, AnswersFromRows
<1> QED
  BY <1>1, <1>2, <1>3 DEF QueryInv

LEMMA QueryTypes ==
  ASSUME QueryInv, [QueryNext]_queryVars
  PROVE  QueryTypeOK'
<1> USE DEF QueryInv, QueryTypeOK
<1>1. CASE Refused
  BY <1>1 DEF Refused, QueryFails, call, store, graph
<1>2. CASE SearchChunks
  <2>5. PICK set \in SUBSET Chunks : \E hits \in SetToSeqs(set) :
          chunkIDs' = hits /\ queryAt' \in {"done", "fetch"}
    BY <1>2 DEF SearchChunks
  <2>1. PICK hits \in SetToSeqs(set) : chunkIDs' = hits /\ queryAt' \in {"done", "fetch"}
    BY <2>5
  <2>2. IsFiniteSet(set)
    BY QueryConstants, FS_Subset
  <2>3. hits \in Seq(set)
    BY <2>2, RangedMeetsAll
  <2>4. hits \in Seq(Chunks)
    BY <2>3
  <2> QED
    BY <1>2, <2>1, <2>4 DEF SearchChunks, call, store, graph
<1>3. CASE Keywords
  BY <1>3 DEF Keywords, call, store, graph
<1>4. CASE SearchLocal
  BY <1>4 DEF SearchLocal, call, store, graph
<1>5. ASSUME NEW e \in Ents, Expand(e)
      PROVE  QueryTypeOK'
  <2>1. NodesOf(SubNodes(e)) \in Maps(Ents)
    BY NodesAre
  <2>2. SubEdges(e) \in SUBSET DOMAIN graphEdges
    BY DEF SubEdges
  <2>3. EdgesOf(SubEdges(e)) \in Maps(EdgeKeys)
    BY <2>2, EdgesAre
  <2>4. loc.ents \in Maps(Ents) /\ loc.rels \in Maps(EdgeKeys)
    BY DEF Halves
  <2>5. /\ Assign(loc.ents, NodesOf(SubNodes(e))) \in Maps(Ents)
        /\ Assign(loc.rels, EdgesOf(SubEdges(e))) \in Maps(EdgeKeys)
    BY <2>1, <2>3, <2>4, AssignIs
  <2>6. loc' \in Halves
    BY <1>5, <2>5 DEF Expand, Halves
  <2> QED
    BY <1>5, <2>6 DEF Expand, call, store, graph
<1>6. CASE CollectLocal
  <2>1. PICK es \in Ranged(loc.ents), rs \in Ranged(loc.rels) :
          loc' = [loc EXCEPT !.ids = Unique(SourceChunks(es, loc.ents) \o SourceChunks(rs, loc.rels))]
    BY <1>6 DEF CollectLocal
  <2>2. Unique(SourceChunks(es, loc.ents) \o SourceChunks(rs, loc.rels)) \in Seq(Chunks)
    BY HalfCollected, KeysAreFinite DEF Halves
  <2>3. loc' \in Halves
    BY <2>1, <2>2 DEF Halves
  <2> QED
    BY <1>6, <2>3 DEF CollectLocal, call, store, graph
<1>7. CASE SearchGlobal
  BY <1>7 DEF SearchGlobal, call, store, graph
<1>8. ASSUME NEW hit \in Edges, LookUp(hit)
      PROVE  QueryTypeOK'
  <2>1. NodesOf(edgeKey(hit.rel)) \in Maps(Ents)
    BY NodesAre
  <2>2. {edgeKey(hit.rel)} \in SUBSET EdgeKeys /\ hit.src \in Lists
    BY DEF Edges, EdgeKeys
  <2>3. [key \in {edgeKey(hit.rel)} |-> hit.src] \in Maps(EdgeKeys)
    BY <2>2, IsMap
  <2>4. glo.ents \in Maps(Ents) /\ glo.rels \in Maps(EdgeKeys)
    BY DEF Halves
  <2>5. /\ Assign(glo.ents, NodesOf(edgeKey(hit.rel))) \in Maps(Ents)
        /\ Assign(glo.rels, [key \in {edgeKey(hit.rel)} |-> hit.src]) \in Maps(EdgeKeys)
    BY <2>1, <2>3, <2>4, AssignIs
  <2>6. glo' \in Halves
    BY <1>8, <2>5 DEF LookUp, Halves
  <2> QED
    BY <1>8, <2>6 DEF LookUp, call, store, graph
<1>9. CASE CollectGlobal
  <2>1. PICK rs \in Ranged(glo.rels), es \in Ranged(glo.ents) :
          glo' = [glo EXCEPT !.ids = Unique(SourceChunks(rs, glo.rels) \o SourceChunks(es, glo.ents))]
    BY <1>9 DEF CollectGlobal
  <2>2. Unique(SourceChunks(rs, glo.rels) \o SourceChunks(es, glo.ents)) \in Seq(Chunks)
    BY HalfCollected, KeysAreFinite DEF Halves
  <2>3. glo' \in Halves
    BY <2>1, <2>2 DEF Halves
  <2> QED
    BY <1>9, <2>3 DEF CollectGlobal, call, store, graph
<1>10. CASE Merge
  <2>1. loc.ids \o glo.ids \in Seq(Chunks) /\ param.ChunkTopK \in Nat
    BY QueryConstants DEF Halves
  <2>2. Unique(loc.ids \o glo.ids) \in Seq(Chunks)
    BY <2>1, UniqueIs
  <2>3. chunkIDs' \in Seq(Chunks)
    BY <1>10, <2>1, <2>2, CutIs DEF Merge
  <2>4. ents' \in Maps(Ents) /\ rels' \in Maps(EdgeKeys)
    BY <1>10, AssignIs DEF Merge, MergedEnts, Halves
  <2> QED
    BY <1>10, <2>3, <2>4 DEF Merge, call, store, graph
<1>11. CASE Fetch
  <2>1. rows' \in Seq(Chunks)
    BY <1>11, FetchedAreWithin DEF Fetch
  <2> QED
    BY <1>11, <2>1 DEF Fetch, call, store, graph
<1>12. CASE Complete
  BY <1>12 DEF Complete, call, store, graph
<1>13. CASE Write
  <2>1. CASE \E c \in Chunks : StoreChunk(c) \/ DeleteChunk(c)
    BY <1>13, <2>1 DEF Write, StoreChunk, DeleteChunk, call, graph
  <2>2. ASSUME NEW e \in Ents, NEW src \in Lists, UpsertNode(e, src)
        PROVE  QueryTypeOK'
    <3>1. [name \in {e} |-> src] \in Maps(Ents)
      BY IsMap
    <3>2. graphNodes' \in Maps(Ents)
      BY <2>2, <3>1, AssignIs DEF UpsertNode
    <3> QED
      BY <1>13, <2>2, <3>2 DEF Write, UpsertNode, call
  <2>3. ASSUME NEW edge \in Edges, UpsertEdge(edge)
        PROVE  QueryTypeOK'
    <3>1. graphEdges' \in Seq(Edges)
      <4> DEFINE V == Edges
      <4>1. graphEdges \in Seq(V) /\ edge \in V
        BY <2>3
      <4> HIDE DEF V
      <4>2. PICK n \in Nat : DOMAIN graphEdges = 1..n /\ \A k \in 1..n : graphEdges[k] \in V
        BY <4>1
      <4>3. Append(graphEdges, edge) \in Seq(V)
        BY <4>1
      <4>4. [k \in DOMAIN graphEdges |-> IF graphEdges[k].rel = edge.rel THEN edge ELSE graphEdges[k]]
              \in Seq(V)
        <5>1. \A k \in 1..n : (IF graphEdges[k].rel = edge.rel THEN edge ELSE graphEdges[k]) \in V
          BY <4>1, <4>2
        <5> QED
          BY <4>2, <5>1
      <4>5. graphEdges' \in Seq(V)
        BY <2>3, <4>3, <4>4 DEF UpsertEdge
      <4> QED
        BY <4>5 DEF V
    <3> QED
      BY <1>13, <2>3, <3>1 DEF Write, UpsertEdge, call
  <2> QED
    BY <1>13, <2>1, <2>2, <2>3 DEF Write
<1>14. CASE UNCHANGED queryVars
  BY <1>14 DEF queryVars, call, store, graph
<1> QED
  BY <1>1, <1>2, <1>3, <1>4, <1>5, <1>6, <1>7, <1>8, <1>9, <1>10, <1>11, <1>12, <1>13, <1>14
     DEF QueryNext, QueryReturned

LEMMA QueryHalves ==
  ASSUME QueryInv, [QueryNext]_queryVars
  PROVE  HalvesInOrder'
<1> USE DEF QueryInv, HalvesInOrder
<1>0. loc \in Halves /\ glo \in Halves
  BY DEF QueryTypeOK
<1>15. Ordered(NoHalf.ids, NoHalf.ents, NoHalf.rels) /\ Ordered(NoHalf.ids, NoHalf.rels, NoHalf.ents)
  BY EmptyHalf
<1>1. CASE Refused
  BY <1>1 DEF Refused, QueryFails
<1>2. CASE SearchChunks
  BY <1>2, <1>15 DEF SearchChunks
<1>3. CASE Keywords
  BY <1>3, <1>15 DEF Keywords
<1>4. CASE SearchLocal
  BY <1>4 DEF SearchLocal
<1>5. ASSUME NEW e \in Ents, Expand(e)
      PROVE  HalvesInOrder'
  BY <1>5 DEF Expand
<1>6. CASE CollectLocal
  <2>1. PICK es \in Ranged(loc.ents), rs \in Ranged(loc.rels) :
          loc' = [loc EXCEPT !.ids = Unique(SourceChunks(es, loc.ents) \o SourceChunks(rs, loc.rels))]
    BY <1>6 DEF CollectLocal
  <2>2. Ordered(Unique(SourceChunks(es, loc.ents) \o SourceChunks(rs, loc.rels)), loc.ents, loc.rels)
    BY <1>0, HalfCollected, KeysAreFinite DEF Halves
  <2>3. Ordered(loc'.ids, loc'.ents, loc'.rels)
    BY <1>0, <2>1, <2>2 DEF Halves
  <2> QED
    BY <1>6, <1>15, <2>3 DEF CollectLocal
<1>7. CASE SearchGlobal
  BY <1>7 DEF SearchGlobal
<1>8. ASSUME NEW hit \in Edges, LookUp(hit)
      PROVE  HalvesInOrder'
  BY <1>8 DEF LookUp
<1>9. CASE CollectGlobal
  <2>1. PICK rs \in Ranged(glo.rels), es \in Ranged(glo.ents) :
          glo' = [glo EXCEPT !.ids = Unique(SourceChunks(rs, glo.rels) \o SourceChunks(es, glo.ents))]
    BY <1>9 DEF CollectGlobal
  <2>2. Ordered(Unique(SourceChunks(rs, glo.rels) \o SourceChunks(es, glo.ents)), glo.rels, glo.ents)
    BY <1>0, HalfCollected, KeysAreFinite DEF Halves
  <2>3. Ordered(glo'.ids, glo'.rels, glo'.ents)
    BY <1>0, <2>1, <2>2 DEF Halves
  <2> QED
    BY <1>9, <2>3 DEF CollectGlobal
<1>10. CASE Merge
  BY <1>10 DEF Merge
<1>11. CASE Fetch
  BY <1>11 DEF Fetch
<1>12. CASE Complete
  BY <1>12 DEF Complete
<1>13. CASE Write
  BY <1>13 DEF Write
<1>14. CASE UNCHANGED queryVars
  BY <1>14 DEF queryVars
<1> QED
  BY <1>1, <1>2, <1>3, <1>4, <1>5, <1>6, <1>7, <1>8, <1>9, <1>10, <1>11, <1>12, <1>13, <1>14
     DEF QueryNext, QueryReturned

LEMMA QueryByMode ==
  ASSUME QueryInv, [QueryNext]_queryVars
  PROVE  HalvesByMode'
<1> USE DEF QueryInv, HalvesByMode, QueryTypeOK, call
<1>1. CASE Refused
  BY <1>1 DEF Refused, QueryFails
<1>2. CASE SearchChunks \/ Keywords \/ SearchLocal
  BY <1>2 DEF SearchChunks, Keywords, SearchLocal
<1>3. ASSUME NEW e \in Ents, Expand(e)
      PROVE  HalvesByMode'
  BY <1>3 DEF Expand
<1>4. CASE CollectLocal
  BY <1>4 DEF CollectLocal
<1>5. CASE SearchGlobal
  BY <1>5 DEF SearchGlobal
<1>6. ASSUME NEW hit \in Edges, LookUp(hit)
      PROVE  HalvesByMode'
  BY <1>6 DEF LookUp
<1>7. CASE CollectGlobal
  BY <1>7 DEF CollectGlobal
<1>8. CASE Merge \/ Fetch \/ Complete \/ Write
  BY <1>8 DEF Merge, Fetch, Complete, Write
<1>9. CASE UNCHANGED queryVars
  BY <1>9 DEF queryVars
<1> QED
  BY <1>1, <1>2, <1>3, <1>4, <1>5, <1>6, <1>7, <1>8, <1>9 DEF QueryNext, QueryReturned

LEMMA QueryContext ==
  ASSUME QueryInv, [QueryNext]_queryVars
  PROVE  ContextOfHalves'
<1> USE DEF QueryInv, ContextOfHalves
<1>1. CASE Refused
  BY <1>1 DEF Refused, QueryFails, call
<1>2. CASE SearchChunks \/ Keywords \/ SearchLocal \/ CollectLocal \/ SearchGlobal \/ CollectGlobal
  BY <1>2 DEF SearchChunks, Keywords, SearchLocal, CollectLocal, SearchGlobal, CollectGlobal, call
<1>3. ASSUME NEW e \in Ents, Expand(e)
      PROVE  ContextOfHalves'
  BY <1>3 DEF Expand, call
<1>4. ASSUME NEW hit \in Edges, LookUp(hit)
      PROVE  ContextOfHalves'
  BY <1>4 DEF LookUp, call
<1>5. CASE Merge
  BY <1>5 DEF Merge, MergedEnts, call
<1>6. CASE Fetch \/ Complete \/ Write
  BY <1>6 DEF Fetch, Complete, Write, call
<1>7. CASE UNCHANGED queryVars
  BY <1>7 DEF queryVars, call
<1> QED
  BY <1>1, <1>2, <1>3, <1>4, <1>5, <1>6, <1>7 DEF QueryNext, QueryReturned

LEMMA QueryAnswers ==
  ASSUME QueryInv, [QueryNext]_queryVars
  PROVE  AnswersFromRows'
<1> USE DEF QueryInv, AnswersFromRows
<1>1. CASE Refused
  BY <1>1 DEF Refused, QueryFails
<1>2. CASE SearchChunks
  <2>1. rows = <<>> /\ Within(<<>>, <<>>)
    BY <1>2 DEF SearchChunks, Within
  <2> QED
    BY <1>2, <2>1 DEF SearchChunks
<1>3. CASE Keywords \/ SearchLocal \/ CollectLocal \/ SearchGlobal \/ CollectGlobal \/ Merge
  BY <1>3 DEF Keywords, SearchLocal, CollectLocal, SearchGlobal, CollectGlobal, Merge
<1>4. ASSUME NEW e \in Ents, Expand(e)
      PROVE  AnswersFromRows'
  BY <1>4 DEF Expand
<1>5. ASSUME NEW hit \in Edges, LookUp(hit)
      PROVE  AnswersFromRows'
  BY <1>5 DEF LookUp
<1>6. CASE Fetch
  <2>1. Within(rows', chunkIDs)
    BY <1>6, FetchedAreWithin DEF Fetch, QueryTypeOK
  <2> QED
    BY <1>6, <2>1 DEF Fetch
<1>7. CASE Complete
  BY <1>7 DEF Complete
<1>8. CASE Write
  BY <1>8 DEF Write
<1>9. CASE UNCHANGED queryVars
  BY <1>9 DEF queryVars
<1> QED
  BY <1>1, <1>2, <1>3, <1>4, <1>5, <1>6, <1>7, <1>8, <1>9 DEF QueryNext, QueryReturned

\* The invariant of a query: its two halves are in order of grade, its context
\* is made of them, and it answers from the rows it fetched (Pipeline.Query).
THEOREM QueryInvariant == QuerySpec => []QueryInv
<1>1. QueryInv /\ [QueryNext]_queryVars => QueryInv'
  BY QueryTypes, QueryHalves, QueryByMode, QueryContext, QueryAnswers DEF QueryInv
<1> QED
  BY <1>1, QueryInitInv, PTL DEF QuerySpec

-----------------------------------------------------------------------------
(* The query: what the context and the references are.                     *)

\* What assigning does to the chunks: those of the second map are kept, those
\* of the first unless their record is replaced.
LEMMA ChunksOfAssign ==
  ASSUME NEW K, NEW m \in Maps(K), NEW n \in Maps(K)
  PROVE  /\ ChunksOf(Assign(m, n)) \subseteq ChunksOf(m) \cup ChunksOf(n)
         /\ ChunksOf(n) \subseteq ChunksOf(Assign(m, n))
         /\ \A c \in ChunksOf(m) \ ChunksOf(Assign(m, n)) : ReplacedBy(n, m, c)
<1> DEFINE a == Assign(m, n)
<1>1. /\ DOMAIN a = DOMAIN m \cup DOMAIN n
      /\ \A key \in DOMAIN n : a[key] = n[key]
      /\ \A key \in DOMAIN m \ DOMAIN n : a[key] = m[key]
  BY DEF Assign
<1> HIDE DEF a
<1>2. ChunksOf(a) \subseteq ChunksOf(m) \cup ChunksOf(n)
  BY <1>1 DEF ChunksOf
<1>3. ChunksOf(n) \subseteq ChunksOf(a)
  BY <1>1 DEF ChunksOf
<1>4. ASSUME NEW c \in ChunksOf(m), c \notin ChunksOf(a)
      PROVE  ReplacedBy(n, m, c)
  <2>1. PICK key \in DOMAIN m : c \in ToSet(m[key])
    BY DEF ChunksOf
  <2>2. CASE key \in DOMAIN n
    BY <2>1, <2>2 DEF ReplacedBy
  <2>3. CASE key \notin DOMAIN n
    <3>1. key \in DOMAIN a /\ c \in ToSet(a[key])
      BY <1>1, <2>1, <2>3
    <3> QED
      BY <1>4, <3>1 DEF ChunksOf
  <2> QED
    BY <2>2, <2>3
<1> QED
  BY <1>2, <1>3, <1>4 DEF a

\* All ids before the cut: none twice, those of each grade before the next.
AllIDs == Unique(loc.ids \o glo.ids)

LEMMA AllIDsAre ==
  ASSUME QueryInv, mode # "naive", queryAt \in {"fetch", "complete", "done"}
  PROVE  /\ AllIDs \in Seq(Chunks) /\ Once(AllIDs) /\ ToSet(AllIDs) = Retrieved
         /\ IsHead(AllIDs, ChunksOf(loc.ents))
         /\ IsHead(AllIDs, ChunksOf(loc.ents) \cup ChunksOf(loc.rels))
         /\ IsHead(AllIDs, ChunksOf(loc.ents) \cup ChunksOf(loc.rels) \cup ChunksOf(glo.rels))
         /\ param.ChunkTopK \in Nat /\ chunkIDs = Cut(AllIDs, param.ChunkTopK)
<1> DEFINE s == loc.ids
           t == glo.ids
           A == ChunksOf(loc.ents)
           B == ChunksOf(loc.rels)
           C == ChunksOf(glo.rels)
           D == ChunksOf(glo.ents)
<1>1. s \in Seq(Chunks) /\ t \in Seq(Chunks)
  BY DEF QueryInv, QueryTypeOK, Halves
<1>2. IsHead(s, A) /\ ToSet(s) = A \cup B /\ IsHead(t, C) /\ ToSet(t) = C \cup D
  BY DEF QueryInv, HalvesInOrder, Ordered
<1>3. Retrieved = A \cup B \cup C \cup D
  BY DEF Retrieved
<1>4. param.ChunkTopK \in Nat
  BY QueryConstants DEF QueryInv, QueryTypeOK
<1>5. chunkIDs = Cut(AllIDs, param.ChunkTopK)
  BY DEF QueryInv, ContextOfHalves, AllIDs
<1>6. AllIDs = Unique(s \o t)
  BY DEF AllIDs
<1> HIDE DEF A, B, C, D, s, t
<1>7. /\ ToSet(s \o t) = ToSet(s) \cup ToSet(t)
      /\ \A H : IsHead(s, H) => IsHead(s \o t, H)
      /\ \A H : IsHead(t, H) => IsHead(s \o t, ToSet(s) \cup H)
  <2>1. s \in Seq(Chunks) /\ t \in Seq(Chunks)
    BY <1>1
  <2>2. HeadsJoin(s, t)
    BY <2>1, HeadsOfConcat
  <2> QED
    BY <2>2 DEF HeadsJoin
<1>8. IsHead(s, A \cup B)
  BY <1>1, <1>2, WholeIsFirst
<1>9. s \o t \in Seq(Chunks)
  BY <1>1
<1>10. /\ Unique(s \o t) \in Seq(Chunks) /\ Once(Unique(s \o t))
       /\ ToSet(Unique(s \o t)) = ToSet(s \o t)
       /\ \A H : IsHead(s \o t, H) => IsHead(Unique(s \o t), H)
  BY <1>9, UniqueIs
<1>11. IsHead(s \o t, A) /\ IsHead(s \o t, A \cup B) /\ IsHead(s \o t, A \cup B \cup C)
  BY <1>2, <1>7, <1>8
<1>12. ToSet(s \o t) = Retrieved
  BY <1>2, <1>3, <1>7
<1> QED
  BY <1>4, <1>5, <1>6, <1>10, <1>11, <1>12 DEF A, B, C

\* The sources of the context are retrieved; what else is retrieved is left
\* over from a replaced record.
LEMMA ContextIsRetrieved ==
  ASSUME QueryInv, mode # "naive", queryAt \in {"fetch", "complete", "done"}
  PROVE  /\ InContext \subseteq Retrieved
         /\ \A c \in Retrieved \ InContext :
              ReplacedBy(glo.ents, loc.ents, c) \/ ReplacedBy(glo.rels, loc.rels, c)
<1>1. /\ loc.ents \in Maps(Ents) /\ glo.ents \in Maps(Ents)
      /\ loc.rels \in Maps(EdgeKeys) /\ glo.rels \in Maps(EdgeKeys)
  BY DEF QueryInv, QueryTypeOK, Halves
<1>2. ents = Assign(loc.ents, glo.ents) /\ rels = Assign(loc.rels, glo.rels)
  BY DEF QueryInv, ContextOfHalves
<1>3. /\ ChunksOf(ents) \subseteq ChunksOf(loc.ents) \cup ChunksOf(glo.ents)
      /\ ChunksOf(glo.ents) \subseteq ChunksOf(ents)
      /\ \A c \in ChunksOf(loc.ents) \ ChunksOf(ents) : ReplacedBy(glo.ents, loc.ents, c)
  BY <1>1, <1>2, ChunksOfAssign
<1>4. /\ ChunksOf(rels) \subseteq ChunksOf(loc.rels) \cup ChunksOf(glo.rels)
      /\ ChunksOf(glo.rels) \subseteq ChunksOf(rels)
      /\ \A c \in ChunksOf(loc.rels) \ ChunksOf(rels) : ReplacedBy(glo.rels, loc.rels, c)
  BY <1>1, <1>2, ChunksOfAssign
<1> QED
  BY <1>3, <1>4 DEF Retrieved, InContext

\* The chunks to be fetched go with the records of the context, but for those
\* of local records that global ones replaced (queryLocal, queryGlobal,
\* queryHybrid).
THEOREM ContextHasItsChunks == QuerySpec => []ChunksFollowRecords
<1>1. QueryInv => ChunksFollowRecords
  <2> SUFFICES ASSUME QueryInv, mode # "naive", queryAt \in {"fetch", "complete", "done"}
               PROVE  /\ Len(chunkIDs) < param.ChunkTopK => InContext \subseteq ToSet(chunkIDs)
                      /\ \A c \in ToSet(chunkIDs) \ InContext :
                           /\ mode = "hybrid"
                           /\ ReplacedBy(glo.ents, loc.ents, c) \/ ReplacedBy(glo.rels, loc.rels, c)
    BY DEF ChunksFollowRecords
  <2> DEFINE u == AllIDs
             m == param.ChunkTopK
  <2>1. u \in Seq(Chunks) /\ ToSet(u) = Retrieved /\ m \in Nat /\ chunkIDs = Cut(u, m)
    BY AllIDsAre
  <2> HIDE DEF u, m
  <2>2. /\ \A i \in DOMAIN chunkIDs : i \in DOMAIN u /\ chunkIDs[i] = u[i]
        /\ Len(chunkIDs) < m => chunkIDs = u
    BY <2>1, CutIs
  <2>3. ToSet(chunkIDs) \subseteq Retrieved
    BY <2>1, <2>2 DEF ToSet
  <2>4. Len(chunkIDs) < m => InContext \subseteq ToSet(chunkIDs)
    BY <2>1, <2>2, ContextIsRetrieved
  <2>5. ASSUME NEW c \in ToSet(chunkIDs) \ InContext
        PROVE  /\ mode = "hybrid"
               /\ ReplacedBy(glo.ents, loc.ents, c) \/ ReplacedBy(glo.rels, loc.rels, c)
    <3>1. ReplacedBy(glo.ents, loc.ents, c) \/ ReplacedBy(glo.rels, loc.rels, c)
      BY <2>3, <2>5, ContextIsRetrieved
    <3>2. ~(loc = NoHalf \/ glo = NoHalf)
      BY <3>1, EmptyHalf DEF ReplacedBy
    <3>3. mode = "hybrid"
      BY <3>2 DEF QueryInv, QueryTypeOK, HalvesByMode
    <3> QED
      BY <3>1, <3>3
  <2> QED
    BY <2>4, <2>5 DEF m
<1> QED
  BY <1>1, QueryInvariant, PTL

\* Along all ids the grade never falls.
LEMMA GradesRise ==
  ASSUME QueryInv, mode # "naive", queryAt \in {"fetch", "complete", "done"},
         NEW j \in DOMAIN AllIDs, NEW k \in DOMAIN AllIDs, j <= k
  PROVE  Grade(AllIDs[j]) <= Grade(AllIDs[k])
<1> DEFINE u == AllIDs
           A == ChunksOf(loc.ents)
           B == ChunksOf(loc.rels)
           C == ChunksOf(glo.rels)
<1>1. /\ u \in Seq(Chunks) /\ Once(u)
      /\ IsHead(u, A) /\ IsHead(u, A \cup B) /\ IsHead(u, A \cup B \cup C)
  BY AllIDsAre
<1>2. \A c : Grade(c) = IF c \in A THEN 1 ELSE IF c \in B THEN 2 ELSE IF c \in C THEN 3 ELSE 4
  BY DEF Grade
<1>3. j \in DOMAIN u /\ k \in DOMAIN u
  OBVIOUS
<1> HIDE DEF u, A, B, C
<1>4. u[k] \in A => u[j] \in A
  BY <1>1, <1>3, HeadComesFirst
<1>5. u[k] \in A \cup B => u[j] \in A \cup B
  BY <1>1, <1>3, HeadComesFirst
<1>6. u[k] \in A \cup B \cup C => u[j] \in A \cup B \cup C
  BY <1>1, <1>3, HeadComesFirst
<1>7. Grade(u[j]) <= Grade(u[k])
  BY <1>2, <1>4, <1>5, <1>6
<1> QED
  BY <1>7 DEF u

\* The references are distinct and in order of grade, and the cut at ChunkTopK
\* drops no chunk for one of a lower grade (queryLocal, mergeResults,
\* fetchChunks).
THEOREM ReferencesAreRanked == QuerySpec => []ReferencesByRank
<1>1. QueryInv => ReferencesByRank
  <2> SUFFICES ASSUME QueryInv, mode # "naive", queryAt \in {"fetch", "complete", "done"}
               PROVE  /\ Len(references) <= param.ChunkTopK
                      /\ \A j, k \in DOMAIN references : j < k =>
                           /\ references[j] # references[k]
                           /\ Grade(references[j]) <= Grade(references[k])
                      /\ \A k \in DOMAIN chunkIDs : \A c \in Retrieved \ ToSet(chunkIDs) :
                           Grade(chunkIDs[k]) <= Grade(c)
    BY DEF ReferencesByRank
  <2> DEFINE u == AllIDs
             m == param.ChunkTopK
  <2>1. u \in Seq(Chunks) /\ Once(u) /\ ToSet(u) = Retrieved /\ m \in Nat /\ chunkIDs = Cut(u, m)
    BY AllIDsAre
  <2>2. \A j, k \in DOMAIN u : j <= k => Grade(u[j]) <= Grade(u[k])
    BY GradesRise
  <2>3. references = <<>> \/ (references = rows /\ Within(rows, chunkIDs))
    BY DEF QueryInv, AnswersFromRows
  <2>4. rows \in Seq(Chunks)
    BY DEF QueryInv, QueryTypeOK
  <2> HIDE DEF u, m
  <2>5. /\ chunkIDs \in Seq(Chunks) /\ Len(chunkIDs) <= m
        /\ \A i \in DOMAIN chunkIDs : i \in DOMAIN u /\ chunkIDs[i] = u[i]
    BY <2>1, CutIs
  <2>6. ASSUME NEW p \in DOMAIN chunkIDs, NEW q \in DOMAIN chunkIDs, p < q
        PROVE  chunkIDs[p] # chunkIDs[q] /\ Grade(chunkIDs[p]) <= Grade(chunkIDs[q])
    <3>1. p \in DOMAIN u /\ q \in DOMAIN u /\ p # q /\ p <= q
      BY <2>1, <2>5, <2>6
    <3>2. u[p] # u[q]
      BY <2>1, <3>1 DEF Once
    <3> QED
      BY <2>2, <2>5, <3>1, <3>2
  <2>7. ASSUME references # <<>>
        PROVE  /\ Len(references) <= m
               /\ \A j, k \in DOMAIN references : j < k =>
                    references[j] # references[k] /\ Grade(references[j]) <= Grade(references[k])
    <3>1. references \in Seq(Chunks) /\ Within(references, chunkIDs)
      BY <2>3, <2>4, <2>7
    <3>2. Len(references) <= m
      BY <2>1, <2>5, <3>1 DEF Within
    <3>3. ASSUME NEW j \in DOMAIN references, NEW k \in DOMAIN references, j < k
          PROVE  references[j] # references[k] /\ Grade(references[j]) <= Grade(references[k])
      <4>1. PICK p, q \in DOMAIN chunkIDs :
              p < q /\ references[j] = chunkIDs[p] /\ references[k] = chunkIDs[q]
        BY <3>1, <3>3 DEF Within
      <4> QED
        BY <2>6, <4>1
    <3> QED
      BY <3>2, <3>3
  <2>8. ASSUME NEW k \in DOMAIN chunkIDs, NEW c \in Retrieved \ ToSet(chunkIDs)
        PROVE  Grade(chunkIDs[k]) <= Grade(c)
    <3>1. PICK q \in DOMAIN u : c = u[q]
      BY <2>1 DEF ToSet
    <3>2. k <= q
      <4>1. chunkIDs \in Seq(Chunks) /\ u \in Seq(Chunks)
        BY <2>1, <2>5
      <4>2. q <= Len(chunkIDs) => q \in DOMAIN chunkIDs
        BY <4>1
      <4>3. q <= Len(chunkIDs) => c \in ToSet(chunkIDs)
        BY <2>5, <3>1, <4>2 DEF ToSet
      <4> QED
        BY <4>1, <4>3
    <3> QED
      BY <2>2, <2>5, <3>1, <3>2
  <2>9. CASE references = <<>>
    <3>1. Len(references) = 0 /\ DOMAIN references = {}
      BY <2>9
    <3> QED
      BY <2>1, <2>8, <3>1 DEF m
  <2> QED
    BY <2>7, <2>8, <2>9 DEF m
<1> QED
  BY <1>1, QueryInvariant, PTL

-----------------------------------------------------------------------------
(* The query: what is in the prompt.                                       *)

LEMMA TokensOfRows ==
  ASSUME NEW seq \in Seq(Chunks)
  PROVE  RowTokens(seq) \in Nat /\ (seq = <<>> => RowTokens(seq) = 0)
<1>1. PICK n \in Nat : DOMAIN seq = 1..n /\ (seq = <<>> => n = 0) /\ \A k \in 1..n : seq[k] \in Chunks
  OBVIOUS
<1>2. \A v \in Nat, k \in 1..n : v + Size[seq[k]] \in Nat
  BY <1>1, QueryConstants
<1>3. PICK a \in [0..n -> Nat] : RowTokensTraces(seq, n, a)
  BY <1>1, <1>2, RowTokensTrace
<1>4. n \in 0..n
  BY <1>1
<1> QED
  BY <1>1, <1>3, <1>4 DEF RowTokensTraces

LEMMA BudgetIsNat == QueryTypeOK => ChunkBudget \in Nat
<1> SUFFICES ASSUME QueryTypeOK PROVE ChunkBudget \in Nat
  OBVIOUS
<1> DEFINE a == Cardinality(DOMAIN ents)
           b == Cardinality(DOMAIN rels)
<1>1. a \in Nat /\ b \in Nat
  BY KeysAreFinite, MapIsFinite, FS_CardinalityType DEF QueryTypeOK
<1>2. /\ param.MaxEntityTokens \in Nat /\ param.MaxRelationTokens \in Nat
      /\ param.MaxTotalTokens \in Nat /\ Line \in Nat
  BY QueryConstants DEF QueryTypeOK
<1>3. Line * a \in Nat /\ Line * b \in Nat
  BY <1>1, <1>2
<1> DEFINE x == Section(ents, param.MaxEntityTokens)
           y == Section(rels, param.MaxRelationTokens)
<1>4. x \in Nat /\ y \in Nat
  BY <1>2, <1>3 DEF Section, Least
<1>5. UsedTokens = x + y
  BY DEF UsedTokens
<1> HIDE DEF x, y
<1>6. UsedTokens \in Nat
  BY <1>4, <1>5
<1> QED
  BY <1>2, <1>6 DEF ChunkBudget

\* Both truncations choose a greatest length among those that are right.
LEMMA ChosenLength ==
  ASSUME NEW l \in Nat, NEW ok, ok \subseteq 0..l, 0 \in ok
  PROVE  (CHOOSE n \in ok : \A k \in ok : k <= n) \in ok
BY Greatest

LEMMA PrefixOfPrefix ==
  ASSUME NEW S, NEW s \in Seq(S), NEW n \in 0..Len(s), NEW m \in 0..n
  PROVE  /\ Len(SubSeq(s, 1, n)) = n
         /\ SubSeq(SubSeq(s, 1, n), 1, m) = SubSeq(s, 1, m)
OBVIOUS

\* What is left of a packed prefix is a prefix that was packed.
LEMMA LeftIsPacked ==
  ASSUME NEW S, NEW s \in Seq(S), NEW max
  PROVE  \E m \in 0..Len(s) :
           /\ Left(PackedChunks(s, max)) = SubSeq(s, 1, m)
           /\ Len(SubSeq(s, 1, m)) = m
           /\ m > 1 => RowTokens(SubSeq(s, 1, m)) <= max
<1> DEFINE okP == {n \in 0..Len(s) : \A k \in 1..n :
                     /\ RowTokens(SubSeq(s, 1, k - 1)) < max
                     /\ k = 1 \/ RowTokens(SubSeq(s, 1, k)) <= max}
           n == CHOOSE i \in okP : \A k \in okP : k <= i
           p == SubSeq(s, 1, n)
           okL == {i \in 0..Len(p) : \A k \in 1..i :
                     Header + UsedTokens + RowTokens(SubSeq(p, 1, k - 1)) + k - 1 < param.MaxTotalTokens}
           m == CHOOSE i \in okL : \A k \in okL : k <= i
<1>1. Left(PackedChunks(s, max)) = SubSeq(p, 1, m)
  BY DEF Left, PackedChunks
<1>2. okP \subseteq 0..Len(s) /\ 0 \in okP /\ Len(s) \in Nat
  OBVIOUS
<1>3. n \in okP
  <2> HIDE DEF okP
  <2> QED
    BY <1>2, ChosenLength
<1>4. /\ n \in 0..Len(s)
      /\ \A k \in 1..n : k = 1 \/ RowTokens(SubSeq(s, 1, k)) <= max
  BY <1>3
<1> HIDE DEF n, okP
<1>5. p \in Seq(S) /\ Len(p) = n /\ n \in Nat
  BY <1>4
<1>6. okL \subseteq 0..n /\ 0 \in okL
  BY <1>5
<1>7. m \in okL
  <2> HIDE DEF okL
  <2> QED
    BY <1>5, <1>6, ChosenLength
<1>8. m \in 0..n
  BY <1>6, <1>7
<1> HIDE DEF m, okL
<1>9. SubSeq(p, 1, m) = SubSeq(s, 1, m)
  BY <1>4, <1>8, PrefixOfPrefix
<1>10. m \in 0..Len(s) /\ Len(SubSeq(s, 1, m)) = m
  BY <1>4, <1>8
<1>11. m > 1 => m \in 1..n /\ m # 1
  BY <1>8
<1>12. m > 1 => RowTokens(SubSeq(s, 1, m)) <= max
  BY <1>4, <1>11
<1> QED
  BY <1>1, <1>9, <1>10, <1>12

LEMMA PromptStep ==
  ASSUME QueryInv, (ChunkBudget \in Nat)', OnlyTheFirstOverruns, [QueryNext]_queryVars
  PROVE  OnlyTheFirstOverruns'
<1>1. CASE shown' = <<>>
  <2>1. ChunkBudget' \in Nat
    OBVIOUS
  <2>2. RowTokens(shown') = 0
    <3>1. <<>> \in Seq(Chunks)
      OBVIOUS
    <3> QED
      BY <1>1, <3>1, TokensOfRows
  <2> QED
    BY <2>1, <2>2 DEF OnlyTheFirstOverruns
<1>2. CASE Complete
  <2> DEFINE B == ChunkBudget
  <2>1. rows \in Seq(Chunks) /\ B \in Nat
    BY BudgetIsNat DEF QueryInv, QueryTypeOK
  <2>2. B' = B
    BY <1>2 DEF Complete, call, ChunkBudget, UsedTokens, Section
  <2>3. shown' = Left(PackedChunks(rows, B))
    BY <1>2 DEF Complete
  <2> HIDE DEF B
  <2>4. PICK m \in 0..Len(rows) :
          /\ shown' = SubSeq(rows, 1, m)
          /\ Len(SubSeq(rows, 1, m)) = m
          /\ m > 1 => RowTokens(SubSeq(rows, 1, m)) <= B
    BY <2>1, <2>3, LeftIsPacked
  <2>5. CASE m = 0
    <3>1. shown' = <<>>
      BY <2>1, <2>4, <2>5
    <3> QED
      BY <1>1, <3>1
  <2>6. CASE m = 1
    BY <2>4, <2>6 DEF OnlyTheFirstOverruns
  <2>7. CASE m > 1
    <3>1. SubSeq(rows, 1, m) \in Seq(Chunks)
      BY <2>1, <2>4
    <3>2. RowTokens(shown') \in Nat /\ RowTokens(shown') <= B
      BY <2>4, <2>7, <3>1, TokensOfRows
    <3>3. ~(RowTokens(shown') > B')
      BY <2>1, <2>2, <3>2
    <3> QED
      BY <3>3 DEF OnlyTheFirstOverruns, B
  <2> QED
    BY <2>4, <2>5, <2>6, <2>7
<1>3. ASSUME shown' # <<>>, ~Complete
      PROVE  OnlyTheFirstOverruns'
  <2>1. shown' = shown
    <3>1. ASSUME NEW e \in Ents, Expand(e) PROVE shown' = shown
      BY <3>1 DEF Expand
    <3>2. ASSUME NEW hit \in Edges, LookUp(hit) PROVE shown' = shown
      BY <3>2 DEF LookUp
    <3>3. CASE Refused \/ Keywords \/ SearchLocal \/ SearchGlobal \/ CollectLocal \/ CollectGlobal
      BY <3>3 DEF Refused, QueryFails, Keywords, SearchLocal, SearchGlobal, CollectLocal, CollectGlobal
    <3>4. CASE SearchChunks \/ Merge \/ Fetch \/ Write
      BY <3>4 DEF SearchChunks, Merge, Fetch, Write
    <3>5. CASE UNCHANGED queryVars
      BY <3>5 DEF queryVars
    <3> QED
      BY <1>3, <3>1, <3>2, <3>3, <3>4, <3>5 DEF QueryNext, QueryReturned
  <2>2. queryAt = "done"
    BY <1>3, <2>1 DEF QueryInv, AnswersFromRows
  <2>3. UNCHANGED <<shown, ents, rels, param>>
    <3>1. ~(\E e \in Ents : Expand(e)) /\ ~(\E hit \in Edges : LookUp(hit))
      BY <2>2 DEF Expand, LookUp
    <3>2. ~Refused /\ ~Keywords /\ ~SearchLocal /\ ~SearchGlobal /\ ~CollectLocal /\ ~CollectGlobal
      BY <2>2 DEF Refused, Keywords, SearchLocal, SearchGlobal, CollectLocal, CollectGlobal
    <3>3. ~SearchChunks /\ ~Merge /\ ~Fetch /\ ~Write
      BY <2>2 DEF SearchChunks, Merge, Fetch, Write
    <3>4. UNCHANGED queryVars
      BY <1>3, <3>1, <3>2, <3>3 DEF QueryNext, QueryReturned
    <3> QED
      BY <3>4 DEF queryVars, call
  <2>4. ChunkBudget' = ChunkBudget
    BY <2>3 DEF ChunkBudget, UsedTokens, Section
  <2> QED
    BY <2>3, <2>4 DEF OnlyTheFirstOverruns
<1> QED
  BY <1>1, <1>2, <1>3

\* The chunks in the prompt keep within their budget, but for a first one that
\* is alone (truncateChunksByTokens, buildSystemPrompt).
THEOREM PromptWithinBudget == QuerySpec => []OnlyTheFirstOverruns
<1>1. QueryInit => OnlyTheFirstOverruns
  <2> SUFFICES ASSUME QueryInit PROVE OnlyTheFirstOverruns
    OBVIOUS
  <2>1. ChunkBudget \in Nat /\ shown = <<>>
    BY QueryInitInv, BudgetIsNat DEF QueryInit, QueryInv
  <2>2. RowTokens(shown) = 0
    <3>1. <<>> \in Seq(Chunks)
      OBVIOUS
    <3> QED
      BY <2>1, <3>1, TokensOfRows
  <2> QED
    BY <2>1, <2>2 DEF OnlyTheFirstOverruns
<1>2. QueryInv => ChunkBudget \in Nat
  BY BudgetIsNat DEF QueryInv
<1>3. QueryInv /\ (ChunkBudget \in Nat)' /\ OnlyTheFirstOverruns /\ [QueryNext]_queryVars
        => OnlyTheFirstOverruns'
  BY PromptStep
<1> QED
  BY <1>1, <1>2, <1>3, QueryInvariant, PTL DEF QuerySpec

-----------------------------------------------------------------------------
(* The merge: folds.                                                       *)

InOrderFold(set, m, f) ==
  f = [t \in SUBSET DOMAIN [i \in 1..m |-> i] |->
         IF t = {} THEN <<>> ELSE IF [i \in 1..m |-> i][Max(t)] \in set THEN Append(f[t \ {Max(t)}], [i \in 1..m |-> i][Max(t)]) ELSE f[t \ {Max(t)}]]

LEMMA InOrderFoldIs ==
  ASSUME NEW set, NEW m
  PROVE  InOrder(set, m) = (CHOOSE f : InOrderFold(set, m, f))[DOMAIN [i \in 1..m |-> i]]
BY Zenon DEF InOrder, FoldLeft, MapThenFoldSet, InOrderFold

InOrderTraces(set, m, n, a) ==
  /\ a[0] = <<>> /\ a[n] = InOrder(set, m)
  /\ \A k \in 1..n : a[k] = IF [i \in 1..m |-> i][k] \in set THEN Append(a[k - 1], [i \in 1..m |-> i][k]) ELSE a[k - 1]

LEMMA InOrderTrace ==
  ASSUME NEW set, NEW m, NEW n \in Nat, DOMAIN [i \in 1..m |-> i] = 1..n, NEW V, <<>> \in V,
         \A v \in V, k \in 1..n : (IF [i \in 1..m |-> i][k] \in set THEN Append(v, [i \in 1..m |-> i][k]) ELSE v) \in V
  PROVE  \E a \in [0..n -> V] : InOrderTraces(set, m, n, a)
<1> DEFINE h == [k \in 1..n |-> [v \in V |-> IF [i \in 1..m |-> i][k] \in set THEN Append(v, [i \in 1..m |-> i][k]) ELSE v]]
<1>1. \A v \in V, k \in 1..n : h[k][v] = IF [i \in 1..m |-> i][k] \in set THEN Append(v, [i \in 1..m |-> i][k]) ELSE v
  OBVIOUS
<1>2. \A v \in V, k \in 1..n : h[k][v] \in V
  OBVIOUS
<1> HIDE DEF h
<1>3. PICK f \in [SUBSET (1..n) -> V] : Steps(n, V, <<>>, h, f)
  BY <1>2, IterationSteps
<1>4. InOrderFold(set, m, f)
  <2>1. ASSUME NEW t \in SUBSET (1..n), t # {}
        PROVE  f[t] = IF [i \in 1..m |-> i][Max(t)] \in set THEN Append(f[t \ {Max(t)}], [i \in 1..m |-> i][Max(t)]) ELSE f[t \ {Max(t)}]
    <3>1. Max(t) \in 1..n /\ f[t \ {Max(t)}] \in V /\ f[t] = h[Max(t)][f[t \ {Max(t)}]]
      BY <1>3, <2>1 DEF Steps
    <3> QED
      BY <1>1, <3>1
  <2>2. f[{}] = <<>>
    BY <1>3 DEF Steps
  <2>3. \A t \in SUBSET (1..n) : f[t] = IF t = {} THEN <<>> ELSE IF [i \in 1..m |-> i][Max(t)] \in set THEN Append(f[t \ {Max(t)}], [i \in 1..m |-> i][Max(t)]) ELSE f[t \ {Max(t)}]
    BY <2>1, <2>2
  <2> QED
    BY <1>3, <2>3 DEF InOrderFold
<1> DEFINE g == CHOOSE q : InOrderFold(set, m, q)
<1>5. InOrderFold(set, m, g)
  BY <1>4
<1> HIDE DEF g
<1>6. Follows(n, V, <<>>, h, g)
  <2>1. \A t \in SUBSET (1..n) :
          g[t] = IF t = {} THEN <<>> ELSE IF [i \in 1..m |-> i][Max(t)] \in set THEN Append(g[t \ {Max(t)}], [i \in 1..m |-> i][Max(t)]) ELSE g[t \ {Max(t)}]
    BY <1>5 DEF InOrderFold
  <2>2. ASSUME NEW t \in SUBSET (1..n), t # {}, g[t \ {Max(t)}] \in V
        PROVE  g[t] = h[Max(t)][g[t \ {Max(t)}]]
    <3>1. Max(t) \in 1..n
      BY <1>3, <2>2 DEF Steps
    <3> QED
      BY <1>1, <2>1, <2>2, <3>1
  <2>3. g[{}] = <<>>
    BY <2>1
  <2> QED
    BY <2>2, <2>3 DEF Follows
<1>7. PICK a \in [0..n -> V] : Traces(n, <<>>, h, g, a)
  BY <1>2, <1>6, Trace
<1>8. ASSUME NEW k \in 1..n
      PROVE  a[k] = IF [i \in 1..m |-> i][k] \in set THEN Append(a[k - 1], [i \in 1..m |-> i][k]) ELSE a[k - 1]
  <2>1. k - 1 \in 0..n /\ a[k - 1] \in V /\ a[k] = h[k][a[k - 1]]
    BY <1>7 DEF Traces
  <2> QED
    BY <1>1, <2>1
<1>9. a[0] = <<>> /\ a[n] = InOrder(set, m)
  BY <1>7, InOrderFoldIs DEF Traces, g
<1>10. InOrderTraces(set, m, n, a)
  BY <1>8, <1>9 DEF InOrderTraces
<1> QED
  BY <1>10

TokensFold(texts, f) ==
  f = [t \in SUBSET DOMAIN texts |->
         IF t = {} THEN 0 ELSE f[t \ {Max(t)}] + texts[Max(t)].tokens]

LEMMA TokensFoldIs ==
  ASSUME NEW texts
  PROVE  Tokens(texts) = (CHOOSE f : TokensFold(texts, f))[DOMAIN texts]
BY Zenon DEF Tokens, FoldLeft, MapThenFoldSet, TokensFold

TokensTraces(texts, n, a) ==
  /\ a[0] = 0 /\ a[n] = Tokens(texts)
  /\ \A k \in 1..n : a[k] = a[k - 1] + texts[k].tokens

LEMMA TokensTrace ==
  ASSUME NEW texts, NEW n \in Nat, DOMAIN texts = 1..n, NEW V, 0 \in V,
         \A v \in V, k \in 1..n : (v + texts[k].tokens) \in V
  PROVE  \E a \in [0..n -> V] : TokensTraces(texts, n, a)
<1> DEFINE h == [k \in 1..n |-> [v \in V |-> v + texts[k].tokens]]
<1>1. \A v \in V, k \in 1..n : h[k][v] = v + texts[k].tokens
  OBVIOUS
<1>2. \A v \in V, k \in 1..n : h[k][v] \in V
  OBVIOUS
<1> HIDE DEF h
<1>3. PICK f \in [SUBSET (1..n) -> V] : Steps(n, V, 0, h, f)
  BY <1>2, IterationSteps
<1>4. TokensFold(texts, f)
  <2>1. ASSUME NEW t \in SUBSET (1..n), t # {}
        PROVE  f[t] = f[t \ {Max(t)}] + texts[Max(t)].tokens
    <3>1. Max(t) \in 1..n /\ f[t \ {Max(t)}] \in V /\ f[t] = h[Max(t)][f[t \ {Max(t)}]]
      BY <1>3, <2>1 DEF Steps
    <3> QED
      BY <1>1, <3>1
  <2>2. f[{}] = 0
    BY <1>3 DEF Steps
  <2>3. \A t \in SUBSET (1..n) : f[t] = IF t = {} THEN 0 ELSE f[t \ {Max(t)}] + texts[Max(t)].tokens
    BY <2>1, <2>2
  <2> QED
    BY <1>3, <2>3 DEF TokensFold
<1> DEFINE g == CHOOSE q : TokensFold(texts, q)
<1>5. TokensFold(texts, g)
  BY <1>4
<1> HIDE DEF g
<1>6. Follows(n, V, 0, h, g)
  <2>1. \A t \in SUBSET (1..n) :
          g[t] = IF t = {} THEN 0 ELSE g[t \ {Max(t)}] + texts[Max(t)].tokens
    BY <1>5 DEF TokensFold
  <2>2. ASSUME NEW t \in SUBSET (1..n), t # {}, g[t \ {Max(t)}] \in V
        PROVE  g[t] = h[Max(t)][g[t \ {Max(t)}]]
    <3>1. Max(t) \in 1..n
      BY <1>3, <2>2 DEF Steps
    <3> QED
      BY <1>1, <2>1, <2>2, <3>1
  <2>3. g[{}] = 0
    BY <2>1
  <2> QED
    BY <2>2, <2>3 DEF Follows
<1>7. PICK a \in [0..n -> V] : Traces(n, 0, h, g, a)
  BY <1>2, <1>6, Trace
<1>8. ASSUME NEW k \in 1..n
      PROVE  a[k] = a[k - 1] + texts[k].tokens
  <2>1. k - 1 \in 0..n /\ a[k - 1] \in V /\ a[k] = h[k][a[k - 1]]
    BY <1>7 DEF Traces
  <2> QED
    BY <1>1, <2>1
<1>9. a[0] = 0 /\ a[n] = Tokens(texts)
  BY <1>7, TokensFoldIs DEF Traces, g
<1>10. TokensTraces(texts, n, a)
  BY <1>8, <1>9 DEF TokensTraces
<1> QED
  BY <1>10

ContentsFold(texts, f) ==
  f = [t \in SUBSET DOMAIN texts |->
         IF t = {} THEN <<>> ELSE f[t \ {Max(t)}] \o texts[Max(t)].of]

LEMMA ContentsFoldIs ==
  ASSUME NEW texts
  PROVE  Contents(texts) = (CHOOSE f : ContentsFold(texts, f))[DOMAIN texts]
BY Zenon DEF Contents, FoldLeft, MapThenFoldSet, ContentsFold

ContentsTraces(texts, n, a) ==
  /\ a[0] = <<>> /\ a[n] = Contents(texts)
  /\ \A k \in 1..n : a[k] = a[k - 1] \o texts[k].of

LEMMA ContentsTrace ==
  ASSUME NEW texts, NEW n \in Nat, DOMAIN texts = 1..n, NEW V, <<>> \in V,
         \A v \in V, k \in 1..n : (v \o texts[k].of) \in V
  PROVE  \E a \in [0..n -> V] : ContentsTraces(texts, n, a)
<1> DEFINE h == [k \in 1..n |-> [v \in V |-> v \o texts[k].of]]
<1>1. \A v \in V, k \in 1..n : h[k][v] = v \o texts[k].of
  OBVIOUS
<1>2. \A v \in V, k \in 1..n : h[k][v] \in V
  OBVIOUS
<1> HIDE DEF h
<1>3. PICK f \in [SUBSET (1..n) -> V] : Steps(n, V, <<>>, h, f)
  BY <1>2, IterationSteps
<1>4. ContentsFold(texts, f)
  <2>1. ASSUME NEW t \in SUBSET (1..n), t # {}
        PROVE  f[t] = f[t \ {Max(t)}] \o texts[Max(t)].of
    <3>1. Max(t) \in 1..n /\ f[t \ {Max(t)}] \in V /\ f[t] = h[Max(t)][f[t \ {Max(t)}]]
      BY <1>3, <2>1 DEF Steps
    <3> QED
      BY <1>1, <3>1
  <2>2. f[{}] = <<>>
    BY <1>3 DEF Steps
  <2>3. \A t \in SUBSET (1..n) : f[t] = IF t = {} THEN <<>> ELSE f[t \ {Max(t)}] \o texts[Max(t)].of
    BY <2>1, <2>2
  <2> QED
    BY <1>3, <2>3 DEF ContentsFold
<1> DEFINE g == CHOOSE q : ContentsFold(texts, q)
<1>5. ContentsFold(texts, g)
  BY <1>4
<1> HIDE DEF g
<1>6. Follows(n, V, <<>>, h, g)
  <2>1. \A t \in SUBSET (1..n) :
          g[t] = IF t = {} THEN <<>> ELSE g[t \ {Max(t)}] \o texts[Max(t)].of
    BY <1>5 DEF ContentsFold
  <2>2. ASSUME NEW t \in SUBSET (1..n), t # {}, g[t \ {Max(t)}] \in V
        PROVE  g[t] = h[Max(t)][g[t \ {Max(t)}]]
    <3>1. Max(t) \in 1..n
      BY <1>3, <2>2 DEF Steps
    <3> QED
      BY <1>1, <2>1, <2>2, <3>1
  <2>3. g[{}] = <<>>
    BY <2>1
  <2> QED
    BY <2>2, <2>3 DEF Follows
<1>7. PICK a \in [0..n -> V] : Traces(n, <<>>, h, g, a)
  BY <1>2, <1>6, Trace
<1>8. ASSUME NEW k \in 1..n
      PROVE  a[k] = a[k - 1] \o texts[k].of
  <2>1. k - 1 \in 0..n /\ a[k - 1] \in V /\ a[k] = h[k][a[k - 1]]
    BY <1>7 DEF Traces
  <2> QED
    BY <1>1, <2>1
<1>9. a[0] = <<>> /\ a[n] = Contents(texts)
  BY <1>7, ContentsFoldIs DEF Traces, g
<1>10. ContentsTraces(texts, n, a)
  BY <1>8, <1>9 DEF ContentsTraces
<1> QED
  BY <1>10

WeightFold(recs, f) ==
  f = [t \in SUBSET DOMAIN recs |->
         IF t = {} THEN 0 ELSE f[t \ {Max(t)}] + recs[Max(t)].weight]

LEMMA WeightFoldIs ==
  ASSUME NEW recs
  PROVE  Weight(recs) = (CHOOSE f : WeightFold(recs, f))[DOMAIN recs]
BY Zenon DEF Weight, FoldLeft, MapThenFoldSet, WeightFold

WeightTraces(recs, n, a) ==
  /\ a[0] = 0 /\ a[n] = Weight(recs)
  /\ \A k \in 1..n : a[k] = a[k - 1] + recs[k].weight

LEMMA WeightTrace ==
  ASSUME NEW recs, NEW n \in Nat, DOMAIN recs = 1..n, NEW V, 0 \in V,
         \A v \in V, k \in 1..n : (v + recs[k].weight) \in V
  PROVE  \E a \in [0..n -> V] : WeightTraces(recs, n, a)
<1> DEFINE h == [k \in 1..n |-> [v \in V |-> v + recs[k].weight]]
<1>1. \A v \in V, k \in 1..n : h[k][v] = v + recs[k].weight
  OBVIOUS
<1>2. \A v \in V, k \in 1..n : h[k][v] \in V
  OBVIOUS
<1> HIDE DEF h
<1>3. PICK f \in [SUBSET (1..n) -> V] : Steps(n, V, 0, h, f)
  BY <1>2, IterationSteps
<1>4. WeightFold(recs, f)
  <2>1. ASSUME NEW t \in SUBSET (1..n), t # {}
        PROVE  f[t] = f[t \ {Max(t)}] + recs[Max(t)].weight
    <3>1. Max(t) \in 1..n /\ f[t \ {Max(t)}] \in V /\ f[t] = h[Max(t)][f[t \ {Max(t)}]]
      BY <1>3, <2>1 DEF Steps
    <3> QED
      BY <1>1, <3>1
  <2>2. f[{}] = 0
    BY <1>3 DEF Steps
  <2>3. \A t \in SUBSET (1..n) : f[t] = IF t = {} THEN 0 ELSE f[t \ {Max(t)}] + recs[Max(t)].weight
    BY <2>1, <2>2
  <2> QED
    BY <1>3, <2>3 DEF WeightFold
<1> DEFINE g == CHOOSE q : WeightFold(recs, q)
<1>5. WeightFold(recs, g)
  BY <1>4
<1> HIDE DEF g
<1>6. Follows(n, V, 0, h, g)
  <2>1. \A t \in SUBSET (1..n) :
          g[t] = IF t = {} THEN 0 ELSE g[t \ {Max(t)}] + recs[Max(t)].weight
    BY <1>5 DEF WeightFold
  <2>2. ASSUME NEW t \in SUBSET (1..n), t # {}, g[t \ {Max(t)}] \in V
        PROVE  g[t] = h[Max(t)][g[t \ {Max(t)}]]
    <3>1. Max(t) \in 1..n
      BY <1>3, <2>2 DEF Steps
    <3> QED
      BY <1>1, <2>1, <2>2, <3>1
  <2>3. g[{}] = 0
    BY <2>1
  <2> QED
    BY <2>2, <2>3 DEF Follows
<1>7. PICK a \in [0..n -> V] : Traces(n, 0, h, g, a)
  BY <1>2, <1>6, Trace
<1>8. ASSUME NEW k \in 1..n
      PROVE  a[k] = a[k - 1] + recs[k].weight
  <2>1. k - 1 \in 0..n /\ a[k - 1] \in V /\ a[k] = h[k][a[k - 1]]
    BY <1>7 DEF Traces
  <2> QED
    BY <1>1, <2>1
<1>9. a[0] = 0 /\ a[n] = Weight(recs)
  BY <1>7, WeightFoldIs DEF Traces, g
<1>10. WeightTraces(recs, n, a)
  BY <1>8, <1>9 DEF WeightTraces
<1> QED
  BY <1>10

KeywordsFold(recs, f) ==
  f = [t \in SUBSET DOMAIN recs |->
         IF t = {} THEN <<>> ELSE IF recs[Max(t)].keywords = NoKeywords \/ Contains(f[t \ {Max(t)}], recs[Max(t)].keywords) THEN f[t \ {Max(t)}] ELSE Append(f[t \ {Max(t)}], recs[Max(t)].keywords)]

LEMMA KeywordsFoldIs ==
  ASSUME NEW recs
  PROVE  KeywordsSeen(recs) = (CHOOSE f : KeywordsFold(recs, f))[DOMAIN recs]
BY Zenon DEF KeywordsSeen, FoldLeft, MapThenFoldSet, KeywordsFold

KeywordsTraces(recs, n, a) ==
  /\ a[0] = <<>> /\ a[n] = KeywordsSeen(recs)
  /\ \A k \in 1..n : a[k] = IF recs[k].keywords = NoKeywords \/ Contains(a[k - 1], recs[k].keywords) THEN a[k - 1] ELSE Append(a[k - 1], recs[k].keywords)

LEMMA KeywordsTrace ==
  ASSUME NEW recs, NEW n \in Nat, DOMAIN recs = 1..n, NEW V, <<>> \in V,
         \A v \in V, k \in 1..n : (IF recs[k].keywords = NoKeywords \/ Contains(v, recs[k].keywords) THEN v ELSE Append(v, recs[k].keywords)) \in V
  PROVE  \E a \in [0..n -> V] : KeywordsTraces(recs, n, a)
<1> DEFINE h == [k \in 1..n |-> [v \in V |-> IF recs[k].keywords = NoKeywords \/ Contains(v, recs[k].keywords) THEN v ELSE Append(v, recs[k].keywords)]]
<1>1. \A v \in V, k \in 1..n : h[k][v] = IF recs[k].keywords = NoKeywords \/ Contains(v, recs[k].keywords) THEN v ELSE Append(v, recs[k].keywords)
  OBVIOUS
<1>2. \A v \in V, k \in 1..n : h[k][v] \in V
  OBVIOUS
<1> HIDE DEF h
<1>3. PICK f \in [SUBSET (1..n) -> V] : Steps(n, V, <<>>, h, f)
  BY <1>2, IterationSteps
<1>4. KeywordsFold(recs, f)
  <2>1. ASSUME NEW t \in SUBSET (1..n), t # {}
        PROVE  f[t] = IF recs[Max(t)].keywords = NoKeywords \/ Contains(f[t \ {Max(t)}], recs[Max(t)].keywords) THEN f[t \ {Max(t)}] ELSE Append(f[t \ {Max(t)}], recs[Max(t)].keywords)
    <3>1. Max(t) \in 1..n /\ f[t \ {Max(t)}] \in V /\ f[t] = h[Max(t)][f[t \ {Max(t)}]]
      BY <1>3, <2>1 DEF Steps
    <3> QED
      BY <1>1, <3>1
  <2>2. f[{}] = <<>>
    BY <1>3 DEF Steps
  <2>3. \A t \in SUBSET (1..n) : f[t] = IF t = {} THEN <<>> ELSE IF recs[Max(t)].keywords = NoKeywords \/ Contains(f[t \ {Max(t)}], recs[Max(t)].keywords) THEN f[t \ {Max(t)}] ELSE Append(f[t \ {Max(t)}], recs[Max(t)].keywords)
    BY <2>1, <2>2
  <2> QED
    BY <1>3, <2>3 DEF KeywordsFold
<1> DEFINE g == CHOOSE q : KeywordsFold(recs, q)
<1>5. KeywordsFold(recs, g)
  BY <1>4
<1> HIDE DEF g
<1>6. Follows(n, V, <<>>, h, g)
  <2>1. \A t \in SUBSET (1..n) :
          g[t] = IF t = {} THEN <<>> ELSE IF recs[Max(t)].keywords = NoKeywords \/ Contains(g[t \ {Max(t)}], recs[Max(t)].keywords) THEN g[t \ {Max(t)}] ELSE Append(g[t \ {Max(t)}], recs[Max(t)].keywords)
    BY <1>5 DEF KeywordsFold
  <2>2. ASSUME NEW t \in SUBSET (1..n), t # {}, g[t \ {Max(t)}] \in V
        PROVE  g[t] = h[Max(t)][g[t \ {Max(t)}]]
    <3>1. Max(t) \in 1..n
      BY <1>3, <2>2 DEF Steps
    <3> QED
      BY <1>1, <2>1, <2>2, <3>1
  <2>3. g[{}] = <<>>
    BY <2>1
  <2> QED
    BY <2>2, <2>3 DEF Follows
<1>7. PICK a \in [0..n -> V] : Traces(n, <<>>, h, g, a)
  BY <1>2, <1>6, Trace
<1>8. ASSUME NEW k \in 1..n
      PROVE  a[k] = IF recs[k].keywords = NoKeywords \/ Contains(a[k - 1], recs[k].keywords) THEN a[k - 1] ELSE Append(a[k - 1], recs[k].keywords)
  <2>1. k - 1 \in 0..n /\ a[k - 1] \in V /\ a[k] = h[k][a[k - 1]]
    BY <1>7 DEF Traces
  <2> QED
    BY <1>1, <2>1
<1>9. a[0] = <<>> /\ a[n] = KeywordsSeen(recs)
  BY <1>7, KeywordsFoldIs DEF Traces, g
<1>10. KeywordsTraces(recs, n, a)
  BY <1>8, <1>9 DEF KeywordsTraces
<1> QED
  BY <1>10

Empty == [done |-> <<>>, current |-> <<>>, tokens |-> 0]

PackedFold(texts, f) ==
  f = [t \in SUBSET DOMAIN texts |->
         IF t = {} THEN Empty ELSE Put(f[t \ {Max(t)}], texts[Max(t)])]

LEMMA PackedFoldIs ==
  ASSUME NEW texts
  PROVE  Packed(texts) = (CHOOSE f : PackedFold(texts, f))[DOMAIN texts]
BY Zenon DEF Packed, Empty, FoldLeft, MapThenFoldSet, PackedFold

PackedTraces(texts, n, a) ==
  /\ a[0] = Empty /\ a[n] = Packed(texts)
  /\ \A k \in 1..n : a[k] = Put(a[k - 1], texts[k])

LEMMA PackedTrace ==
  ASSUME NEW texts, NEW n \in Nat, DOMAIN texts = 1..n, NEW V, Empty \in V,
         \A v \in V, k \in 1..n : (Put(v, texts[k])) \in V
  PROVE  \E a \in [0..n -> V] : PackedTraces(texts, n, a)
<1> DEFINE h == [k \in 1..n |-> [v \in V |-> Put(v, texts[k])]]
<1>1. \A v \in V, k \in 1..n : h[k][v] = Put(v, texts[k])
  OBVIOUS
<1>2. \A v \in V, k \in 1..n : h[k][v] \in V
  OBVIOUS
<1> HIDE DEF h
<1>3. PICK f \in [SUBSET (1..n) -> V] : Steps(n, V, Empty, h, f)
  BY <1>2, IterationSteps
<1>4. PackedFold(texts, f)
  <2>1. ASSUME NEW t \in SUBSET (1..n), t # {}
        PROVE  f[t] = Put(f[t \ {Max(t)}], texts[Max(t)])
    <3>1. Max(t) \in 1..n /\ f[t \ {Max(t)}] \in V /\ f[t] = h[Max(t)][f[t \ {Max(t)}]]
      BY <1>3, <2>1 DEF Steps
    <3> QED
      BY <1>1, <3>1
  <2>2. f[{}] = Empty
    BY <1>3 DEF Steps
  <2>3. \A t \in SUBSET (1..n) : f[t] = IF t = {} THEN Empty ELSE Put(f[t \ {Max(t)}], texts[Max(t)])
    BY <2>1, <2>2
  <2> QED
    BY <1>3, <2>3 DEF PackedFold
<1> DEFINE g == CHOOSE q : PackedFold(texts, q)
<1>5. PackedFold(texts, g)
  BY <1>4
<1> HIDE DEF g
<1>6. Follows(n, V, Empty, h, g)
  <2>1. \A t \in SUBSET (1..n) :
          g[t] = IF t = {} THEN Empty ELSE Put(g[t \ {Max(t)}], texts[Max(t)])
    BY <1>5 DEF PackedFold
  <2>2. ASSUME NEW t \in SUBSET (1..n), t # {}, g[t \ {Max(t)}] \in V
        PROVE  g[t] = h[Max(t)][g[t \ {Max(t)}]]
    <3>1. Max(t) \in 1..n
      BY <1>3, <2>2 DEF Steps
    <3> QED
      BY <1>1, <2>1, <2>2, <3>1
  <2>3. g[{}] = Empty
    BY <2>1
  <2> QED
    BY <2>2, <2>3 DEF Follows
<1>7. PICK a \in [0..n -> V] : Traces(n, Empty, h, g, a)
  BY <1>2, <1>6, Trace
<1>8. ASSUME NEW k \in 1..n
      PROVE  a[k] = Put(a[k - 1], texts[k])
  <2>1. k - 1 \in 0..n /\ a[k - 1] \in V /\ a[k] = h[k][a[k - 1]]
    BY <1>7 DEF Traces
  <2> QED
    BY <1>1, <2>1
<1>9. a[0] = Empty /\ a[n] = Packed(texts)
  BY <1>7, PackedFoldIs DEF Traces, g
<1>10. PackedTraces(texts, n, a)
  BY <1>8, <1>9 DEF PackedTraces
<1> QED
  BY <1>10

-----------------------------------------------------------------------------
(* The merge: places.                                                      *)

LEMMA AppendIs ==
  ASSUME NEW S, NEW s \in Seq(S), NEW x
  PROVE  /\ DOMAIN s = 1..Len(s) /\ Len(s) \in Nat
         /\ Len(Append(s, x)) = Len(s) + 1 /\ DOMAIN Append(s, x) = 1..(Len(s) + 1)
         /\ \A i \in 1..Len(s) : Append(s, x)[i] = s[i] /\ s[i] \in S
         /\ Append(s, x)[Len(s) + 1] = x
OBVIOUS

LEMMA AppendHolds ==
  ASSUME NEW S, NEW s \in Seq(S), NEW x
  PROVE  ToSet(Append(s, x)) = ToSet(s) \cup {x}
<1> DEFINE w == Append(s, x)
           l == Len(s)
<1>1. /\ DOMAIN s = 1..l /\ l \in Nat /\ DOMAIN w = 1..(l + 1) /\ w[l + 1] = x
      /\ \A i \in 1..l : w[i] = s[i]
  BY AppendIs
<1> HIDE DEF w, l
<1>2. \A i \in 1..(l + 1) : i \in 1..l \/ i = l + 1
  BY <1>1
<1>3. l + 1 \in 1..(l + 1) /\ \A i \in 1..l : i \in 1..(l + 1)
  BY <1>1
<1>4. \A y \in ToSet(w) : y \in ToSet(s) \cup {x}
  BY <1>1, <1>2 DEF ToSet
<1>5. \A y \in ToSet(s) : y \in ToSet(w)
  BY <1>1, <1>3 DEF ToSet
<1>6. x \in ToSet(w)
  BY <1>1, <1>3 DEF ToSet
<1>7. ToSet(w) = ToSet(s) \cup {x}
  BY <1>4, <1>5, <1>6
<1> QED
  BY <1>7 DEF w

\* The values InOrder goes through, place by place.
PlacesTraces(set, m, a) ==
  /\ a[0] = <<>> /\ a[m] = InOrder(set, m)
  /\ \A k \in 1..m : a[k] = IF k \in set THEN Append(a[k - 1], k) ELSE a[k - 1]

LEMMA PlacesTrace ==
  ASSUME NEW set, NEW m \in Nat
  PROVE  \E a \in [0..m -> Seq(1..m)] : PlacesTraces(set, m, a)
<1> DEFINE V == Seq(1..m)
           s == [i \in 1..m |-> i]
<1>1. <<>> \in V /\ DOMAIN s = 1..m /\ \A k \in 1..m : s[k] = k
  OBVIOUS
<1>2. \A v \in V, k \in 1..m : (IF s[k] \in set THEN Append(v, s[k]) ELSE v) \in V
  <2> SUFFICES ASSUME NEW v \in V, NEW k \in 1..m
               PROVE  (IF s[k] \in set THEN Append(v, s[k]) ELSE v) \in V
    OBVIOUS
  <2>1. Append(v, k) \in V
    OBVIOUS
  <2> HIDE DEF s, V
  <2> QED
    BY <1>1, <2>1
<1> HIDE DEF V
<1>3. PICK a \in [0..m -> V] : InOrderTraces(set, m, m, a)
  BY <1>1, <1>2, InOrderTrace
<1>4. PlacesTraces(set, m, a)
  <2>1. \A k \in 1..m : a[k] = IF s[k] \in set THEN Append(a[k - 1], s[k]) ELSE a[k - 1]
    BY <1>3 DEF InOrderTraces
  <2>2. \A k \in 1..m : a[k] = IF k \in set THEN Append(a[k - 1], k) ELSE a[k - 1]
    BY <1>1, <2>1
  <2> QED
    BY <1>3, <2>2 DEF InOrderTraces, PlacesTraces
<1> QED
  BY <1>4 DEF V

Rising(s) == \A i, j \in DOMAIN s : i < j => s[i] < s[j]

\* The places in order are those of the set, each once.
LEMMA InOrderIs ==
  ASSUME NEW m \in Nat, NEW set, set \subseteq 1..m
  PROVE  InOrder(set, m) \in Seq(1..m) /\ ToSet(InOrder(set, m)) = set /\ Rising(InOrder(set, m))
<1>1. PICK a \in [0..m -> Seq(1..m)] : PlacesTraces(set, m, a)
  BY PlacesTrace
<1> DEFINE Good(k, v) == ToSet(v) = set \cap 1..k /\ Rising(v)
           K == {k \in 0..m : Good(k, a[k])}
<1>2. 0 \in K
  <2>1. a[0] = <<>> /\ 0 \in 0..m /\ DOMAIN <<>> = {}
    BY <1>1 DEF PlacesTraces
  <2>2. ToSet(<<>>) = {} /\ Rising(<<>>) /\ 1..0 = {}
    BY <2>1 DEF ToSet, Rising
  <2> QED
    BY <2>1, <2>2
<1>3. ASSUME NEW k \in 1..m, k - 1 \in K
      PROVE  k \in K
  <2> DEFINE v == a[k - 1]
  <2>1. v \in Seq(1..m) /\ Good(k - 1, v) /\ k \in 0..m /\ k \in Nat
    BY <1>1, <1>3
  <2>2. a[k] = IF k \in set THEN Append(v, k) ELSE v
    BY <1>1 DEF PlacesTraces
  <2>3. 1..k = 1..(k - 1) \cup {k}
    BY <2>1
  <2> HIDE DEF v
  <2>4. CASE k \notin set
    BY <2>1, <2>2, <2>3, <2>4
  <2>5. CASE k \in set
    <3> DEFINE w == Append(v, k)
           l == Len(v)
    <3>1. /\ l \in Nat /\ DOMAIN v = 1..l /\ DOMAIN w = 1..(l + 1) /\ w[l + 1] = k
          /\ \A i \in 1..l : w[i] = v[i] /\ v[i] \in 1..m
      <4> DEFINE R == 1..m
      <4>1. v \in Seq(R)
        BY <2>1
      <4> HIDE DEF R
      <4>2. /\ l \in Nat /\ DOMAIN v = 1..l /\ DOMAIN w = 1..(l + 1) /\ w[l + 1] = k
            /\ \A i \in 1..l : w[i] = v[i] /\ v[i] \in R
        BY <4>1, AppendIs
      <4> QED
        BY <4>2 DEF R
    <3>7. ToSet(w) = ToSet(v) \cup {k}
      BY <2>1, AppendHolds
    <3> HIDE DEF w, l
    <3>2. \A i \in 1..l : v[i] \in 1..(k - 1)
      BY <2>1, <3>1 DEF ToSet
    <3>4. ASSUME NEW i \in DOMAIN w, NEW j \in DOMAIN w, i < j
          PROVE  w[i] < w[j]
      <4>1. i \in 1..l /\ (j \in 1..l \/ j = l + 1)
        BY <3>1, <3>4
      <4>2. CASE j \in 1..l
        BY <2>1, <3>1, <3>4, <4>1, <4>2 DEF Rising
      <4>3. CASE j = l + 1
        <5>1. w[i] \in 1..(k - 1) /\ w[j] = k
          BY <3>1, <3>2, <4>1, <4>3
        <5> QED
          BY <2>1, <5>1
      <4> QED
        BY <4>1, <4>2, <4>3
    <3>5. Good(k, w)
      BY <2>1, <2>3, <2>5, <3>4, <3>7 DEF Rising
    <3>6. a[k] = w
      BY <2>2, <2>5 DEF w
    <3> HIDE DEF Good
    <3> QED
      BY <2>1, <3>5, <3>6
  <2> QED
    BY <2>4, <2>5
<1>4. m \in K
  <2> HIDE DEF K
  <2>1. \A k \in 0..m : k \in K
    BY <1>2, <1>3, InductionUpTo
  <2> QED
    BY <2>1
<1>5. a[m] = InOrder(set, m)
  BY <1>1 DEF PlacesTraces
<1>6. m \in 0..m
  OBVIOUS
<1>7. a[m] \in Seq(1..m)
  BY <1>1, <1>6
<1>8. set \cap 1..m = set
  OBVIOUS
<1> QED
  BY <1>4, <1>5, <1>7, <1>8

\* All places in order are 1 to m.
LEMMA AllInOrder ==
  ASSUME NEW m \in Nat
  PROVE  InOrder(1..m, m) = [i \in 1..m |-> i]
<1>1. PICK a \in [0..m -> Seq(1..m)] : PlacesTraces(1..m, m, a)
  BY PlacesTrace
<1> DEFINE K == {k \in 0..m : Len(a[k]) = k /\ \A i \in 1..k : a[k][i] = i}
<1>2. 0 \in K
  <2>1. a[0] = <<>> /\ 0 \in 0..m
    BY <1>1 DEF PlacesTraces
  <2>2. Len(<<>>) = 0 /\ 1..0 = {}
    OBVIOUS
  <2> QED
    BY <2>1, <2>2
<1>3. ASSUME NEW k \in 1..m, k - 1 \in K
      PROVE  k \in K
  <2> DEFINE v == a[k - 1]
  <2>6. k - 1 \in 0..m /\ k \in 0..m /\ k \in Nat
    OBVIOUS
  <2>1. v \in Seq(1..m) /\ a[k] = Append(v, k) /\ k \in 0..m /\ k \in Nat
    BY <1>1, <2>6 DEF PlacesTraces
  <2>2. Len(v) = k - 1 /\ \A i \in 1..(k - 1) : v[i] = i
    BY <1>3
  <2> HIDE DEF v
  <2>3. /\ Len(Append(v, k)) = k /\ Append(v, k)[k] = k
        /\ \A i \in 1..(k - 1) : Append(v, k)[i] = i
    BY <2>1, <2>2
  <2>4. \A i \in 1..k : i \in 1..(k - 1) \/ i = k
    BY <2>1
  <2>5. \A i \in 1..k : Append(v, k)[i] = i
    BY <2>3, <2>4
  <2> QED
    BY <2>1, <2>3, <2>5
<1>4. m \in K
  <2>1. \A k \in 0..m : k \in K
    <3> HIDE DEF K
    <3> QED
      BY <1>2, <1>3, InductionUpTo
  <2> QED
    BY <2>1
<1> DEFINE s == InOrder(1..m, m)
<1>5. s \in Seq(1..m) /\ Len(s) = m /\ \A i \in 1..m : s[i] = i
  BY <1>1, <1>4 DEF PlacesTraces
<1> HIDE DEF s
<1>6. s = [i \in 1..m |-> i]
  BY <1>5
<1> QED
  BY <1>6 DEF s

-----------------------------------------------------------------------------
(* The merge: sums, contents and keywords of a sequence, one more element. *)


LEMMA WeightAppend ==
  ASSUME NEW S, \A x \in S : x.weight \in Int, NEW s \in Seq(S), NEW x \in S
  PROVE  Weight(s) \in Int /\ Weight(Append(s, x)) = Weight(s) + x.weight
<1> DEFINE w == Append(s, x)
           l == Len(s)
           n == l + 1
<1>1. /\ l \in Nat /\ DOMAIN s = 1..l /\ DOMAIN w = 1..n /\ w[n] = x
      /\ \A i \in 1..l : w[i] = s[i] /\ s[i] \in S
  BY AppendIs
<1> HIDE DEF w, l
<1>2. n \in Nat /\ n \in 1..n /\ n - 1 = l /\ 0 \in Int /\ l \in 0..l
      /\ \A i \in 1..n : i \in 1..l \/ i = n
  BY <1>1
<1>3. \A i \in 1..n : w[i] \in S
  BY <1>1, <1>2
<1>4. \A v \in Int, k \in 1..l : v + s[k].weight \in Int
  BY <1>1
<1>5. \A v \in Int, k \in 1..n : v + w[k].weight \in Int
  BY <1>3
<1> HIDE DEF n
<1>6. PICK a \in [0..l -> Int] : WeightTraces(s, l, a)
  BY <1>1, <1>2, <1>4, WeightTrace
<1>7. PICK b \in [0..n -> Int] : WeightTraces(w, n, b)
  BY <1>1, <1>2, <1>5, WeightTrace
<1> DEFINE K == {k \in 0..l : b[k] = a[k]}
<1>8. ASSUME NEW k \in 1..l, k - 1 \in K
      PROVE  k \in K
  <2>1. k \in 0..l /\ k \in 1..n
    BY <1>1 DEF n
  <2> QED
    BY <1>1, <1>6, <1>7, <1>8, <2>1 DEF WeightTraces
<1>9. \A k \in 0..l : k \in K
  <2>1. 0 \in K
    BY <1>1, <1>6, <1>7 DEF WeightTraces
  <2> HIDE DEF K
  <2> QED
    BY <1>1, <1>8, <2>1, InductionUpTo
<1>10. b[n] = b[l] + x.weight /\ b[l] = a[l]
  BY <1>1, <1>2, <1>7, <1>9 DEF WeightTraces
<1>11. a[l] = Weight(s) /\ a[l] \in Int /\ b[n] = Weight(w)
  BY <1>2, <1>6, <1>7 DEF WeightTraces
<1> QED
  BY <1>10, <1>11 DEF w

LEMMA WeightEmpty == Weight(<<>>) = 0
<1>1. DOMAIN <<>> = 1..0 /\ 1..0 = {} /\ 0 \in Nat /\ 0 \in {0}
  OBVIOUS
<1>2. PICK a \in [0..0 -> {0}] : WeightTraces(<<>>, 0, a)
  BY <1>1, WeightTrace
<1> QED
  BY <1>2 DEF WeightTraces

LEMMA TokensNat ==
  ASSUME NEW S, \A x \in S : x.tokens \in Nat, NEW s \in Seq(S)
  PROVE  Tokens(s) \in Nat
<1> DEFINE l == Len(s)
<1>1. l \in Nat /\ DOMAIN s = 1..l /\ (\A k \in 1..l : s[k] \in S) /\ 0 \in Nat
  OBVIOUS
<1> HIDE DEF l
<1>2. \A v \in Nat, k \in 1..l : v + s[k].tokens \in Nat
  BY <1>1
<1>3. PICK a \in [0..l -> Nat] : TokensTraces(s, l, a)
  BY <1>1, <1>2, TokensTrace
<1>4. l \in 0..l
  BY <1>1
<1> QED
  BY <1>3, <1>4 DEF TokensTraces

\* A text: its length, and the places of the records it was made of.
Text == [tokens : Nat, of : Seq(Nat)]

LEMMA ContentsTraced ==
  ASSUME NEW s \in Seq(Text), NEW n, n = Len(s)
  PROVE  \E a \in [0..n -> Seq(Nat)] : ContentsTraces(s, n, a)
<1>6. n \in Nat /\ DOMAIN s = 1..n /\ \A k \in 1..n : s[k] \in Text
  OBVIOUS
<1>1. n \in Nat /\ DOMAIN s = 1..n /\ \A k \in 1..n : s[k].of \in Seq(Nat)
  BY <1>6 DEF Text
<1> DEFINE V == Seq(Nat)
<1>2. <<>> \in V /\ \A v \in V, t \in V : v \o t \in V
  OBVIOUS
<1>3. \A k \in 1..n : s[k].of \in V
  BY <1>1
<1> HIDE DEF V
<1>4. \A v \in V, k \in 1..n : v \o s[k].of \in V
  BY <1>2, <1>3
<1>5. \E a \in [0..n -> V] : ContentsTraces(s, n, a)
  BY <1>1, <1>2, <1>4, ContentsTrace
<1> QED
  BY <1>5 DEF V

LEMMA ContentsAppend ==
  ASSUME NEW s \in Seq(Text), NEW x \in Text
  PROVE  Contents(s) \in Seq(Nat) /\ Contents(Append(s, x)) = Contents(s) \o x.of
<1> DEFINE w == Append(s, x)
           l == Len(s)
           n == l + 1
<1>1. /\ l \in Nat /\ DOMAIN s = 1..l /\ DOMAIN w = 1..n /\ w[n] = x /\ n = Len(w)
      /\ \A i \in 1..l : w[i] = s[i] /\ s[i] \in Text
  BY AppendIs
<1>3. w \in Seq(Text) /\ l = Len(s)
  OBVIOUS
<1> HIDE DEF w, l
<1>2. n \in Nat /\ n \in 1..n /\ n - 1 = l /\ l \in 0..l
  BY <1>1
<1> HIDE DEF n
<1>6. PICK a \in [0..l -> Seq(Nat)] : ContentsTraces(s, l, a)
  BY <1>3, ContentsTraced
<1>7. PICK b \in [0..n -> Seq(Nat)] : ContentsTraces(w, n, b)
  BY <1>1, <1>3, ContentsTraced
<1> DEFINE K == {k \in 0..l : b[k] = a[k]}
<1>8. ASSUME NEW k \in 1..l, k - 1 \in K
      PROVE  k \in K
  <2>1. k \in 0..l /\ k \in 1..n
    BY <1>1 DEF n
  <2> QED
    BY <1>1, <1>6, <1>7, <1>8, <2>1 DEF ContentsTraces
<1>9. \A k \in 0..l : k \in K
  <2>1. 0 \in K
    BY <1>1, <1>6, <1>7 DEF ContentsTraces
  <2> HIDE DEF K
  <2> QED
    BY <1>1, <1>8, <2>1, InductionUpTo
<1>10. b[n] = b[l] \o x.of /\ b[l] = a[l]
  BY <1>1, <1>2, <1>7, <1>9 DEF ContentsTraces
<1>11. a[l] = Contents(s) /\ a[l] \in Seq(Nat) /\ b[n] = Contents(w)
  BY <1>2, <1>6, <1>7 DEF ContentsTraces
<1> QED
  BY <1>10, <1>11 DEF w

LEMMA ContentsEmpty == Contents(<<>>) = <<>>
<1>1. <<>> \in Seq(Text) /\ 0 = Len(<<>>)
  OBVIOUS
<1>2. PICK a \in [0..0 -> Seq(Nat)] : ContentsTraces(<<>>, 0, a)
  BY <1>1, ContentsTraced
<1> QED
  BY <1>2 DEF ContentsTraces

-----------------------------------------------------------------------------
(* The merge: concatenations, by induction over the beginnings of the      *)
(* second sequence.                                                        *)

Beginning(s, k) == SubSeq(s, 1, k)

LEMMA Beginnings ==
  ASSUME NEW S, NEW s \in Seq(S)
  PROVE  /\ Beginning(s, 0) = <<>> /\ Beginning(s, Len(s)) = s
         /\ \A k \in 0..Len(s) : Beginning(s, k) \in Seq(S) /\ Len(Beginning(s, k)) = k
         /\ \A k \in 1..Len(s) : /\ s[k] \in S /\ k - 1 \in 0..Len(s)
                                 /\ Beginning(s, k) = Append(Beginning(s, k - 1), s[k])
<1>1. Beginning(s, 0) = <<>> /\ Beginning(s, Len(s)) = s
  BY DEF Beginning
<1>2. ASSUME NEW k \in 0..Len(s)
      PROVE  Beginning(s, k) \in Seq(S) /\ Len(Beginning(s, k)) = k
  BY DEF Beginning
<1>3. ASSUME NEW k \in 1..Len(s)
      PROVE  /\ s[k] \in S /\ k - 1 \in 0..Len(s)
             /\ Beginning(s, k) = Append(Beginning(s, k - 1), s[k])
  BY DEF Beginning
<1> QED
  BY <1>1, <1>2, <1>3

LEMMA ConcatOfAppend ==
  ASSUME NEW S, NEW s \in Seq(S), NEW t \in Seq(S), NEW x \in S
  PROVE  s \o Append(t, x) = Append(s \o t, x) /\ s \o t \in Seq(S) /\ s \o <<>> = s
OBVIOUS

\* The hypotheses and the conclusion of the next lemma, as one formula each.
AllIn(S, s, t, u) == s \in Seq(S) /\ t \in Seq(S) /\ u \in Seq(S)
Associate(s, t, u) == (s \o t) \o u = s \o (t \o u)

LEMMA ConcatOfThree ==
  ASSUME NEW S, NEW s, NEW t, NEW u, AllIn(S, s, t, u)
  PROVE  Associate(s, t, u)
BY ConcatAssociative DEF AllIn, Associate

LEMMA ContentsConcat ==
  ASSUME NEW s \in Seq(Text), NEW t \in Seq(Text)
  PROVE  Contents(s \o t) = Contents(s) \o Contents(t) /\ Contents(t) \in Seq(Nat)
<1> DEFINE n == Len(t)
           B(k) == Beginning(t, k)
           K == {k \in 0..n : /\ Contents(s \o B(k)) = Contents(s) \o Contents(B(k))
                              /\ Contents(s) \in Seq(Nat) /\ Contents(B(k)) \in Seq(Nat)}
<1>1. /\ B(0) = <<>> /\ B(n) = t /\ n \in Nat
      /\ \A k \in 0..n : B(k) \in Seq(Text)
      /\ \A k \in 1..n : /\ t[k] \in Text /\ k - 1 \in 0..n
                         /\ B(k) = Append(B(k - 1), t[k])
  BY Beginnings
<1>2. \A u \in Seq(Text), x \in Text :
        Contents(u) \in Seq(Nat) /\ Contents(Append(u, x)) = Contents(u) \o x.of
  BY ContentsAppend
<1>3. \A u \in Seq(Text) : Contents(u) \in Seq(Nat)
  <2>1. [tokens |-> 0, of |-> <<>>] \in Text
    BY DEF Text
  <2> QED
    BY <1>2, <2>1
<1> HIDE DEF n, B
<1>4. 0 \in K
  <2>1. s \o <<>> = s /\ <<>> \in Seq(Nat)
    OBVIOUS
  <2>2. Contents(s) \in Seq(Nat)
    BY <1>3
  <2>3. Contents(s) \o <<>> = Contents(s)
    BY <2>2
  <2>4. 0 \in 0..n /\ B(0) = <<>>
    BY <1>1
  <2> QED
    BY <2>1, <2>2, <2>3, <2>4, ContentsEmpty
<1>5. ASSUME NEW k \in 1..n, k - 1 \in K
      PROVE  k \in K
  <2> DEFINE u == B(k - 1)
             x == t[k]
  <2>9. k - 1 \in 0..n /\ k \in 0..n
    BY <1>1
  <2>1. u \in Seq(Text) /\ x \in Text /\ B(k) = Append(u, x) /\ k \in 0..n
    BY <1>1, <2>9
  <2>2. Contents(s \o u) = Contents(s) \o Contents(u)
    BY <1>5
  <2> HIDE DEF u, x
  <2>3. s \o Append(u, x) = Append(s \o u, x) /\ s \o u \in Seq(Text)
    BY <2>1, ConcatOfAppend
  <2>4. Contents(s \o Append(u, x)) = (Contents(s) \o Contents(u)) \o x.of
    BY <1>2, <2>1, <2>2, <2>3
  <2>5. Contents(s) \in Seq(Nat) /\ Contents(u) \in Seq(Nat) /\ x.of \in Seq(Nat)
    BY <1>3, <2>1 DEF Text
  <2>6. (Contents(s) \o Contents(u)) \o x.of = Contents(s) \o (Contents(u) \o x.of)
    <3> DEFINE p == Contents(s)
               q == Contents(u)
               z == x.of
    <3>1. p \in Seq(Nat) /\ q \in Seq(Nat) /\ z \in Seq(Nat)
      BY <2>5
    <3> HIDE DEF p, q, z
    <3>2. (p \o q) \o z = p \o (q \o z)
      <4>1. AllIn(Nat, p, q, z)
        BY <3>1 DEF AllIn
      <4>2. Associate(p, q, z)
        BY <4>1, ConcatOfThree
      <4> QED
        BY <4>2 DEF Associate
    <3> QED
      BY <3>2 DEF p, q, z
  <2>7. Contents(Append(u, x)) = Contents(u) \o x.of /\ Append(u, x) \in Seq(Text)
    BY <1>2, <2>1
  <2>8. Contents(s \o Append(u, x)) = Contents(s) \o Contents(Append(u, x))
    BY <2>4, <2>6, <2>7
  <2> QED
    BY <1>3, <2>1, <2>5, <2>7, <2>8
<1>6. n \in K
  <2>1. \A k \in 0..n : k \in K
    <3> HIDE DEF K
    <3> QED
      BY <1>1, <1>4, <1>5, InductionUpTo
  <2>2. n \in 0..n
    BY <1>1
  <2> HIDE DEF K
  <2> QED
    BY <2>1, <2>2
<1> QED
  BY <1>1, <1>6

LEMMA FlattenEmpty == FlattenSeq(<<>>) = <<>>
BY DEF FlattenSeq

LEMMA FlattenAppend ==
  ASSUME NEW S, NEW ss \in Seq(Seq(S)), NEW x \in Seq(S)
  PROVE  FlattenSeq(Append(ss, x)) = FlattenSeq(ss) \o x
<1> DEFINE w == Append(ss, x)
           l == Len(ss)
           n == l + 1
<1>1. /\ l \in Nat /\ DOMAIN w = 1..n /\ w[n] = x /\ n = Len(w) /\ w \in Seq(Seq(S))
      /\ \A i \in 1..l : w[i] = ss[i]
  OBVIOUS
<1>2. n \in Nat /\ n # 0 /\ n \in 1..n /\ n - 1 = l
  OBVIOUS
<1>3. l = 0 => ss = <<>>
  OBVIOUS
<1>4. l = Len(ss)
  OBVIOUS
<1> HIDE DEF w, n, l
<1>5. PICK b \in [1..n -> Seq(S)] : Chained(w, n, b) /\ FlattenSeq(w) = b[n]
  BY <1>1, <1>2, FlattenSteps
<1>6. \A i \in 1..n : b[i] = IF i = 1 THEN w[i] ELSE b[i - 1] \o w[i]
  BY <1>5 DEF Chained
<1>7. CASE l = 0
  <2>1. n = 1 /\ ss = <<>>
    BY <1>3, <1>7 DEF n
  <2>2. b[n] = x
    BY <1>1, <1>2, <1>6, <2>1
  <2>3. <<>> \o x = x
    OBVIOUS
  <2> QED
    BY <1>5, <2>1, <2>2, <2>3, FlattenEmpty DEF w
<1>8. CASE l # 0
  <2>1. PICK a \in [1..l -> Seq(S)] : Chained(ss, l, a) /\ FlattenSeq(ss) = a[l]
    BY <1>4, <1>8, FlattenSteps
  <2>2. \A i \in 1..l : a[i] = IF i = 1 THEN ss[i] ELSE a[i - 1] \o ss[i]
    BY <2>1 DEF Chained
  <2> DEFINE K == {k \in 0..l : k = 0 \/ b[k] = a[k]}
  <2>3. ASSUME NEW k \in 1..l, k - 1 \in K
        PROVE  k \in K
    <3>1. k \in 0..l /\ k \in 1..n /\ (k # 1 => k - 1 # 0)
      BY <1>1 DEF n
    <3>2. b[k] = a[k]
      <4>1. k # 1 => b[k - 1] = a[k - 1]
        BY <2>3, <3>1
      <4>2. /\ b[k] = IF k = 1 THEN w[k] ELSE b[k - 1] \o w[k]
            /\ a[k] = IF k = 1 THEN ss[k] ELSE a[k - 1] \o ss[k]
        BY <1>6, <2>2, <3>1
      <4>3. w[k] = ss[k]
        BY <1>1
      <4> QED
        BY <4>1, <4>2, <4>3
    <3> QED
      BY <3>1, <3>2
  <2>4. \A k \in 0..l : k \in K
    <3>1. 0 \in K
      BY <1>1
    <3> HIDE DEF K
    <3> QED
      BY <1>1, <2>3, <3>1, InductionUpTo
  <2>5. b[l] = a[l]
    BY <1>1, <1>8, <2>4
  <2>6. b[n] = b[l] \o x
    <3>1. n # 1
      BY <1>2, <1>8
    <3> QED
      BY <1>1, <1>2, <1>6, <3>1
  <2> QED
    BY <1>5, <2>1, <2>5, <2>6 DEF w
<1> QED
  BY <1>7, <1>8

LEMMA FlattenCons ==
  ASSUME NEW S, NEW ss \in Seq(Seq(S)), ss # <<>>
  PROVE  /\ Head(ss) \in Seq(S) /\ Tail(ss) \in Seq(Seq(S)) /\ FlattenSeq(Tail(ss)) \in Seq(S)
         /\ FlattenSeq(ss) = Head(ss) \o FlattenSeq(Tail(ss))
<1> DEFINE h == Head(ss)
           t == Tail(ss)
           n == Len(t)
           B(k) == Beginning(t, k)
           K == {k \in 0..n : FlattenSeq(<<h>> \o B(k)) = h \o FlattenSeq(B(k))}
<1>1. h \in Seq(S) /\ t \in Seq(Seq(S)) /\ ss = <<h>> \o t /\ <<h>> \in Seq(Seq(S))
  <2>1. h \in Seq(S) /\ t \in Seq(Seq(S)) /\ ss = <<h>> \o t
    OBVIOUS
  <2> HIDE DEF h
  <2> QED
    BY <2>1
<1> HIDE DEF h, t
<1>2. /\ B(0) = <<>> /\ B(n) = t /\ n \in Nat
      /\ \A k \in 0..n : B(k) \in Seq(Seq(S))
      /\ \A k \in 1..n : /\ t[k] \in Seq(S) /\ k - 1 \in 0..n
                         /\ B(k) = Append(B(k - 1), t[k])
  BY <1>1, Beginnings
<1> HIDE DEF n, B
<1>3. 0 \in K
  <2>1. <<>> \in Seq(Seq(S)) /\ Append(<<>>, h) = <<h>> /\ <<h>> \o <<>> = <<h>> /\ <<>> \o h = h
        /\ h \o <<>> = h
    BY <1>1
  <2>2. FlattenSeq(<<h>>) = h
    BY <1>1, <2>1, FlattenAppend, FlattenEmpty
  <2>3. 0 \in 0..n /\ B(0) = <<>>
    BY <1>2
  <2> QED
    BY <2>1, <2>2, <2>3, FlattenEmpty
<1>4. ASSUME NEW k \in 1..n, k - 1 \in K
      PROVE  k \in K
  <2> DEFINE u == B(k - 1)
             x == t[k]
  <2>8. k - 1 \in 0..n /\ k \in 0..n
    BY <1>2
  <2>1. u \in Seq(Seq(S)) /\ x \in Seq(S) /\ B(k) = Append(u, x) /\ k \in 0..n
    BY <1>2, <2>8
  <2>2. FlattenSeq(<<h>> \o u) = h \o FlattenSeq(u)
    BY <1>4
  <2> HIDE DEF u, x
  <2>3. <<h>> \o Append(u, x) = Append(<<h>> \o u, x) /\ <<h>> \o u \in Seq(Seq(S))
    <3> DEFINE R == Seq(S)
    <3>1. <<h>> \in Seq(R) /\ u \in Seq(R) /\ x \in R
      BY <1>1, <2>1
    <3> HIDE DEF R
    <3>2. <<h>> \o Append(u, x) = Append(<<h>> \o u, x) /\ <<h>> \o u \in Seq(R)
      BY <3>1, ConcatOfAppend
    <3> QED
      BY <3>2 DEF R
  <2>4. FlattenSeq(<<h>> \o Append(u, x)) = (h \o FlattenSeq(u)) \o x
    BY <2>1, <2>2, <2>3, FlattenAppend
  <2>5. FlattenSeq(u) \in Seq(S)
    BY <2>1, FlattenIsSeq
  <2>6. (h \o FlattenSeq(u)) \o x = h \o (FlattenSeq(u) \o x)
    <3>1. AllIn(S, h, FlattenSeq(u), x)
      BY <1>1, <2>1, <2>5 DEF AllIn
    <3> DEFINE fu == FlattenSeq(u)
    <3>2. Associate(h, fu, x)
      BY <3>1, ConcatOfThree
    <3> QED
      BY <3>2 DEF Associate
  <2>7. FlattenSeq(Append(u, x)) = FlattenSeq(u) \o x
    BY <2>1, FlattenAppend
  <2> QED
    BY <2>1, <2>4, <2>6, <2>7
<1>5. n \in K
  <2>1. \A k \in 0..n : k \in K
    <3> HIDE DEF K
    <3> QED
      BY <1>2, <1>3, <1>4, InductionUpTo
  <2>2. n \in 0..n
    BY <1>2
  <2> HIDE DEF K
  <2> QED
    BY <2>1, <2>2
<1>6. FlattenSeq(t) \in Seq(S)
  BY <1>1, FlattenIsSeq
<1> QED
  BY <1>1, <1>2, <1>5, <1>6 DEF h, t

-----------------------------------------------------------------------------
(* The merge: windows.                                                     *)

Packings == [done : Seq(Seq(Text)), current : Seq(Text), tokens : Nat]

\* The three things Put does with a description: it is added to the window
\* under way, or closes one of a single description, or finds it closed.
Adds(v, w, d) == w.done = v.done /\ w.current = Append(v.current, d)
Closes(v, w, d) ==
  /\ Len(v.current) = 1
  /\ w.done = Append(v.done, Append(v.current, d)) /\ w.current = <<>>
Opens(v, w, d) ==
  /\ Len(v.current) > 1
  /\ w.done = Append(v.done, v.current) /\ w.current = <<d>>

LEMMA PutIs ==
  ASSUME NEW v \in Packings, NEW d \in Text
  PROVE  /\ Put(v, d) \in Packings
         /\ Adds(v, Put(v, d), d) \/ Closes(v, Put(v, d), d) \/ Opens(v, Put(v, d), d)
<1>1. /\ v.done \in Seq(Seq(Text)) /\ v.current \in Seq(Text) /\ v.tokens \in Nat /\ d.tokens \in Nat
      /\ v = [done |-> v.done, current |-> v.current, tokens |-> v.tokens]
  BY DEF Packings, Text
<1> DEFINE A == [done |-> v.done, current |-> Append(v.current, d), tokens |-> v.tokens + d.tokens]
           B == [done |-> Append(v.done, Append(v.current, d)), current |-> <<>>, tokens |-> 0]
           C == [done |-> Append(v.done, v.current), current |-> <<d>>, tokens |-> d.tokens]
<1>2. Append(v.current, d) \in Seq(Text) /\ <<d>> \in Seq(Text) /\ <<>> \in Seq(Text)
  BY <1>1
<1>3. \A w \in Seq(Text) : Append(v.done, w) \in Seq(Seq(Text))
  BY <1>1
<1>4. A \in Packings /\ B \in Packings /\ C \in Packings
  BY <1>1, <1>2, <1>3 DEF Packings
<1>5. Adds(v, A, d)
  BY DEF Adds
<1>6. Len(v.current) = 1 => Closes(v, B, d)
  BY DEF Closes
<1>7. v.current # <<>> /\ Len(v.current) # 1 => Opens(v, C, d)
  <2> DEFINE c == v.current
  <2>2. c \in Seq(Text)
    BY <1>1
  <2> HIDE DEF c
  <2>1. c # <<>> /\ Len(c) # 1 => Len(c) > 1
    BY <2>2
  <2> QED
    BY <2>1 DEF Opens, c
<1>8. \/ Put(v, d) = A
      \/ Len(v.current) = 1 /\ Put(v, d) = B
      \/ v.current # <<>> /\ Len(v.current) # 1 /\ Put(v, d) = C
  BY <1>1 DEF Put
<1> HIDE DEF A, B, C
<1> QED
  BY <1>4, <1>5, <1>6, <1>7, <1>8

\* What was packed so far, window after window.
Whole(v) == FlattenSeq(v.done) \o v.current

LEMMA WholeGrows ==
  ASSUME NEW v \in Packings, NEW d \in Text, NEW w \in Packings,
         Adds(v, w, d) \/ Closes(v, w, d) \/ Opens(v, w, d)
  PROVE  Whole(w) = Append(Whole(v), d)
<1> DEFINE p == v.done
           c == v.current
           f == FlattenSeq(p)
<1>1. p \in Seq(Seq(Text)) /\ c \in Seq(Text) /\ Append(c, d) \in Seq(Text)
  BY DEF Packings
<1>2. f \in Seq(Text)
  BY <1>1, FlattenIsSeq
<1>3. Whole(v) = f \o c
  BY DEF Whole
<1>4. \A x \in Seq(Text) : FlattenSeq(Append(p, x)) = f \o x
  BY <1>1, FlattenAppend
<1>5. f \o Append(c, d) = Append(f \o c, d) /\ Append(f \o c, d) = (f \o c) \o <<d>>
      /\ (f \o Append(c, d)) \o <<>> = f \o Append(c, d)
  <2> HIDE DEF f, c
  <2> QED
    BY <1>1, <1>2
<1>6. CASE Adds(v, w, d)
  <2>1. Whole(w) = f \o Append(c, d)
    BY <1>6 DEF Adds, Whole
  <2> QED
    BY <1>3, <1>5, <2>1
<1>7. CASE Closes(v, w, d)
  <2>1. Whole(w) = FlattenSeq(Append(p, Append(c, d))) \o <<>>
    BY <1>7 DEF Closes, Whole
  <2> QED
    BY <1>1, <1>3, <1>4, <1>5, <2>1
<1>8. CASE Opens(v, w, d)
  <2>1. Whole(w) = FlattenSeq(Append(p, c)) \o <<d>>
    BY <1>8 DEF Opens, Whole
  <2> QED
    BY <1>1, <1>3, <1>4, <1>5, <2>1
<1> QED
  BY <1>6, <1>7, <1>8

\* Windows that are done hold at least two.
Twos(v) == \A i \in DOMAIN v.done : Len(v.done[i]) > 1

LEMMA TwosStay ==
  ASSUME NEW v \in Packings, NEW d \in Text, NEW w \in Packings,
         Adds(v, w, d) \/ Closes(v, w, d) \/ Opens(v, w, d),
         Twos(v), NEW k \in Nat, 2 * Len(v.done) + Len(v.current) <= k
  PROVE  Twos(w) /\ 2 * Len(w.done) + Len(w.current) <= k + 1
<1> DEFINE p == v.done
           c == v.current
<1>0. 2 * Len(p) + Len(c) <= k
  OBVIOUS
<1>1. p \in Seq(Seq(Text)) /\ c \in Seq(Text)
  BY DEF Packings
<1>2. Len(p) \in Nat /\ Len(c) \in Nat /\ Len(Append(c, d)) = Len(c) + 1
  BY <1>1
<1>3. ASSUME NEW x \in Seq(Text), Len(x) > 1, w.done = Append(p, x)
      PROVE  Twos(w) /\ Len(w.done) = Len(p) + 1
  <2>1. /\ DOMAIN p = 1..Len(p) /\ Len(Append(p, x)) = Len(p) + 1
        /\ DOMAIN Append(p, x) = 1..(Len(p) + 1)
        /\ \A i \in 1..Len(p) : Append(p, x)[i] = p[i]
        /\ Append(p, x)[Len(p) + 1] = x
    BY <1>1, AppendIs
  <2>2. \A i \in 1..(Len(p) + 1) : i \in 1..Len(p) \/ i = Len(p) + 1
    BY <1>2
  <2> QED
    BY <1>3, <2>1, <2>2 DEF Twos
<1>4. CASE Adds(v, w, d)
  <2>1. w.done = p /\ Len(w.current) = Len(c) + 1
    BY <1>2, <1>4 DEF Adds
  <2>2. Twos(w)
    BY <2>1 DEF Twos
  <2> HIDE DEF p, c
  <2> QED
    BY <1>0, <1>2, <2>1, <2>2
<1>5. CASE Closes(v, w, d)
  <2>1. Append(c, d) \in Seq(Text) /\ Len(Append(c, d)) > 1 /\ w.done = Append(p, Append(c, d))
        /\ Len(c) = 1 /\ Len(w.current) = 0
    BY <1>1, <1>2, <1>5 DEF Closes
  <2>2. Twos(w) /\ Len(w.done) = Len(p) + 1
    BY <1>3, <2>1
  <2> HIDE DEF p, c
  <2> QED
    BY <1>0, <1>2, <2>1, <2>2
<1>6. CASE Opens(v, w, d)
  <2>1. w.done = Append(p, c) /\ Len(c) > 1 /\ Len(w.current) = 1
    BY <1>6 DEF Opens
  <2>2. Twos(w) /\ Len(w.done) = Len(p) + 1
    BY <1>1, <1>3, <2>1
  <2> HIDE DEF p, c
  <2> QED
    BY <1>0, <1>2, <2>1, <2>2
<1> QED
  BY <1>4, <1>5, <1>6

LEMMA PackedIs ==
  ASSUME NEW texts \in Seq(Text)
  PROVE  /\ Packed(texts) \in Packings /\ Whole(Packed(texts)) = texts /\ Twos(Packed(texts))
         /\ 2 * Len(Packed(texts).done) + Len(Packed(texts).current) <= Len(texts)
<1> DEFINE n == Len(texts)
           B(k) == Beginning(texts, k)
<1>1. /\ B(0) = <<>> /\ B(n) = texts /\ n \in Nat /\ DOMAIN texts = 1..n
      /\ \A k \in 1..n : texts[k] \in Text /\ B(k) = Append(B(k - 1), texts[k])
  BY Beginnings
<1> HIDE DEF n, B
<1>2. Empty \in Packings
  BY DEF Empty, Packings
<1>3. \A v \in Packings, k \in 1..n : Put(v, texts[k]) \in Packings
  BY <1>1, PutIs
<1>4. PICK a \in [0..n -> Packings] : PackedTraces(texts, n, a)
  BY <1>1, <1>2, <1>3, PackedTrace
<1> DEFINE Good(k, v) == /\ Whole(v) = B(k) /\ Twos(v)
                         /\ 2 * Len(v.done) + Len(v.current) <= k
           K == {k \in 0..n : Good(k, a[k])}
<1>5. 0 \in K
  <2>1. a[0] = Empty /\ 0 \in 0..n /\ B(0) = <<>>
    BY <1>1, <1>4 DEF PackedTraces
  <2>2. <<>> \o <<>> = <<>> /\ Len(<<>>) = 0 /\ DOMAIN <<>> = {}
    OBVIOUS
  <2>3. Empty.done = <<>> /\ Empty.current = <<>>
    BY DEF Empty
  <2>4. Whole(Empty) = <<>>
    BY <2>2, <2>3, FlattenEmpty DEF Whole
  <2>5. Twos(Empty) /\ 2 * Len(Empty.done) + Len(Empty.current) <= 0
    BY <2>2, <2>3 DEF Twos
  <2> QED
    BY <2>1, <2>4, <2>5
<1>6. ASSUME NEW k \in 1..n, k - 1 \in K
      PROVE  k \in K
  <2> DEFINE v == a[k - 1]
             w == a[k]
             d == texts[k]
  <2>1. k - 1 \in 0..n /\ k \in 0..n /\ k - 1 \in Nat /\ (k - 1) + 1 = k
    BY <1>1
  <2>2. v \in Packings /\ w \in Packings /\ d \in Text /\ w = Put(v, d)
    BY <1>1, <1>4, <2>1 DEF PackedTraces
  <2>3. Good(k - 1, v) /\ B(k) = Append(B(k - 1), d)
    BY <1>1, <1>6
  <2> HIDE DEF v, w, d
  <2>4. Adds(v, w, d) \/ Closes(v, w, d) \/ Opens(v, w, d)
    BY <2>2, PutIs
  <2>5. Whole(w) = Append(Whole(v), d)
    BY <2>2, <2>4, WholeGrows
  <2>6. Twos(w) /\ 2 * Len(w.done) + Len(w.current) <= (k - 1) + 1
    BY <2>1, <2>2, <2>3, <2>4, TwosStay
  <2>7. Good(k, w)
    BY <2>1, <2>3, <2>5, <2>6
  <2> HIDE DEF Good
  <2> QED
    BY <2>1, <2>7 DEF w
<1>7. \A k \in 0..n : k \in K
  <2> HIDE DEF K
  <2> QED
    BY <1>1, <1>5, <1>6, InductionUpTo
<1>8. n \in 0..n
  BY <1>1
<1>9. Good(n, a[n]) /\ a[n] \in Packings /\ a[n] = Packed(texts)
  BY <1>4, <1>7, <1>8 DEF PackedTraces
<1> QED
  BY <1>1, <1>9 DEF n

\* Windows hold what was cut, in order; none is empty, and there are at most
\* half as many windows as texts, rounded up.
LEMMA WindowsAre ==
  ASSUME NEW texts \in Seq(Text), Len(texts) > 1
  PROVE  /\ chunkByTokens(texts) \in Seq(Seq(Text)) /\ chunkByTokens(texts) # <<>>
         /\ FlattenSeq(chunkByTokens(texts)) = texts
         /\ \A i \in DOMAIN chunkByTokens(texts) : Len(chunkByTokens(texts)[i]) > 0
         /\ 2 * Len(chunkByTokens(texts)) <= Len(texts) + 1
<1> DEFINE v == Packed(texts)
           p == v.done
           c == v.current
           n == Len(texts)
<1>1. /\ p \in Seq(Seq(Text)) /\ c \in Seq(Text) /\ FlattenSeq(p) \o c = texts
      /\ (\A i \in DOMAIN p : Len(p[i]) > 1) /\ 2 * Len(p) + Len(c) <= n
  BY PackedIs DEF Packings, Whole, Twos
<1>2. chunkByTokens(texts) = IF c = <<>> THEN p ELSE Append(p, c)
  BY DEF chunkByTokens
<1>3. n \in Nat /\ n > 1
  OBVIOUS
<1> HIDE DEF v, p, c, n
<1>4. FlattenSeq(p) \in Seq(Text) /\ Len(p) \in Nat /\ Len(c) \in Nat /\ DOMAIN p = 1..Len(p)
  BY <1>1, FlattenIsSeq
<1>8. \A i \in DOMAIN p : Len(p[i]) > 0
  <2>1. \A i \in DOMAIN p : Len(p[i]) \in Nat
    BY <1>1
  <2> QED
    BY <1>1, <2>1
<1>5. CASE c = <<>>
  <2>1. FlattenSeq(p) = texts /\ Len(c) = 0
    BY <1>1, <1>4, <1>5
  <2>2. p # <<>>
    <3>1. p = <<>> => texts = <<>> /\ Len(texts) = 0
      BY <2>1, FlattenEmpty
    <3> QED
      BY <1>3, <3>1 DEF n
  <2> QED
    BY <1>1, <1>2, <1>3, <1>4, <1>5, <1>8, <2>1, <2>2 DEF n
<1>6. CASE c # <<>>
  <2> DEFINE w == Append(p, c)
  <2>7. w # <<>> /\ w \in Seq(Seq(Text)) /\ Len(c) > 0
    <3>1. \A s \in Seq(Text) : Len(s) \in Nat /\ (Len(s) = 0 => s = <<>>)
      OBVIOUS
    <3>2. Len(c) > 0
      BY <1>1, <1>6, <3>1
    <3>3. w # <<>> /\ w \in Seq(Seq(Text))
      BY <1>1, AppendProperties
    <3> QED
      BY <3>2, <3>3
  <2>1. /\ Len(w) = Len(p) + 1 /\ w # <<>> /\ w \in Seq(Seq(Text)) /\ Len(c) > 0
        /\ DOMAIN w = 1..(Len(p) + 1) /\ (\A i \in 1..Len(p) : w[i] = p[i]) /\ w[Len(p) + 1] = c
    BY <1>1, <2>7, AppendIs
  <2>2. FlattenSeq(w) = texts
    BY <1>1, FlattenAppend
  <2>3. \A i \in 1..(Len(p) + 1) : i \in 1..Len(p) \/ i = Len(p) + 1
    BY <1>4
  <2> HIDE DEF w
  <2>4. \A i \in DOMAIN w : Len(w[i]) > 0
    BY <1>4, <1>8, <2>1, <2>3
  <2>5. 2 * Len(w) <= n + 1
    BY <1>1, <1>3, <1>4, <2>1
  <2>6. chunkByTokens(texts) = w
    BY <1>2, <1>6 DEF w
  <2> QED
    BY <2>1, <2>2, <2>4, <2>5, <2>6 DEF n
<1> QED
  BY <1>5, <1>6

-----------------------------------------------------------------------------
(* The merge: groups of records.                                           *)

LEMMA RecordsAre ==
  ASSUME NEW recs \in Inputs
  PROVE  /\ Len(recs) \in Nat /\ DOMAIN recs = 1..Len(recs)
         /\ recs = [i \in 1..Len(recs) |-> recs[i]] /\ recs \in Seq(ToSet(recs))
         /\ \A i \in 1..Len(recs) : recs[i].tokens \in Nat /\ recs[i] \in ToSet(recs)
         /\ \A x \in ToSet(recs) : x.weight \in Int
<1> DEFINE n == Len(recs)
<1>1. n \in Nat /\ recs = [i \in 1..n |-> recs[i]]
  BY MergeConstants
<1>2. \A i \in DOMAIN recs : recs[i].tokens \in Nat /\ recs[i].weight \in Int
  BY MergeConstants
<1> HIDE DEF n
<1>3. DOMAIN recs = 1..n
  BY <1>1
<1>4. \A i \in 1..n : recs[i] \in ToSet(recs)
  BY <1>3 DEF ToSet
<1>5. recs \in Seq(ToSet(recs))
  BY <1>1, <1>4
<1>6. \A x \in ToSet(recs) : x.weight \in Int
  BY <1>2 DEF ToSet
<1> QED
  BY <1>1, <1>2, <1>3, <1>4, <1>5, <1>6 DEF n

\* Each group once, and every record in one.
LEMMA NamesAre ==
  ASSUME NEW recs \in Inputs
  PROVE  /\ Len(Names(recs)) \in Nat /\ DOMAIN Names(recs) = 1..Len(Names(recs))
         /\ \A j, k \in DOMAIN Names(recs) : Names(recs)[j] = Names(recs)[k] => j = k
         /\ \A i \in DOMAIN recs : \E k \in DOMAIN Names(recs) : Names(recs)[k] = GroupKey(recs[i])
<1> DEFINE n == Len(recs)
           F == FirstPlaces(recs)
           first == InOrder(F, n)
           names == [k \in DOMAIN first |-> GroupKey(recs[first[k]])]
<1>1. n \in Nat /\ DOMAIN recs = 1..n
  BY RecordsAre
<1>2. F \subseteq 1..n /\ \A i \in F : \A j \in 1..(i - 1) : GroupKey(recs[j]) # GroupKey(recs[i])
  BY <1>1 DEF FirstPlaces
<1>3. \A i \in 1..n : (\A j \in 1..(i - 1) : GroupKey(recs[j]) # GroupKey(recs[i])) => i \in F
  BY <1>1 DEF FirstPlaces
<1>4. Names(recs) = names
  BY DEF Names
<1> HIDE DEF n, F
<1>5. first \in Seq(1..n) /\ ToSet(first) = F /\ Rising(first)
  BY <1>1, <1>2, InOrderIs
<1> HIDE DEF first
<1>6. Len(names) = Len(first) /\ Len(first) \in Nat /\ DOMAIN names = DOMAIN first
      /\ DOMAIN first = 1..Len(first)
  BY <1>5
<1>7. \A k \in DOMAIN first : names[k] = GroupKey(recs[first[k]]) /\ first[k] \in F /\ first[k] \in 1..n
  <2>1. \A k \in DOMAIN first : names[k] = GroupKey(recs[first[k]])
    OBVIOUS
  <2>2. \A k \in DOMAIN first : first[k] \in F
    BY <1>5 DEF ToSet
  <2> QED
    BY <1>2, <2>1, <2>2
<1> HIDE DEF names
<1>8. ASSUME NEW j \in DOMAIN first, NEW k \in DOMAIN first, j < k
      PROVE  names[j] # names[k]
  <2>1. first[j] < first[k] /\ first[j] \in 1..n /\ first[k] \in F /\ first[k] \in 1..n
    BY <1>5, <1>7, <1>8 DEF Rising
  <2>2. first[j] \in 1..(first[k] - 1)
    BY <1>1, <2>1
  <2> QED
    BY <1>2, <1>7, <2>1, <2>2
<1>9. ASSUME NEW j \in DOMAIN first, NEW k \in DOMAIN first, names[j] = names[k]
      PROVE  j = k
  <2>1. j \in Nat /\ k \in Nat
    BY <1>6
  <2>2. j < k \/ k < j \/ j = k
    BY <2>1
  <2> QED
    BY <1>8, <1>9, <2>2
<1>10. ASSUME NEW i \in 1..n
       PROVE  \E k \in DOMAIN first : names[k] = GroupKey(recs[i])
  <2> DEFINE T == {j \in 1..n : GroupKey(recs[j]) = GroupKey(recs[i])}
  <2>1. T \subseteq Nat /\ T # {}
    BY <1>1
  <2>2. PICK x \in T : \A y \in T : x <= y
    <3> HIDE DEF T
    <3> QED
      BY <2>1, LeastElement
  <2>3. ASSUME NEW j \in 1..(x - 1)
        PROVE  GroupKey(recs[j]) # GroupKey(recs[x])
    <3>1. j \in 1..n /\ ~(x <= j)
      BY <1>1, <2>2
    <3> QED
      BY <2>2, <3>1
  <2>4. x \in F
    BY <1>3, <2>2, <2>3
  <2>5. PICK k \in DOMAIN first : first[k] = x
    BY <1>5, <2>4 DEF ToSet
  <2> QED
    BY <1>7, <2>2, <2>5
<1> QED
  BY <1>1, <1>4, <1>6, <1>9, <1>10

\* The places of a group.
PlacesOf(recs, name) == {i \in DOMAIN recs : GroupKey(recs[i]) = name}

LEMMA DescribedIs ==
  ASSUME NEW recs \in Inputs, NEW name
  PROVE  /\ Described(recs, name) \in Seq(1..Len(recs)) /\ Described(recs, name) \in Seq(Nat)
         /\ Len(Described(recs, name)) \in Nat
<1> DEFINE n == Len(recs)
           D == {i \in DOMAIN recs : GroupKey(recs[i]) = name /\ recs[i].given}
           s == InOrder(D, n)
<1>1. n \in Nat /\ D \subseteq 1..n
  BY RecordsAre
<1>2. s = Described(recs, name)
  BY DEF Described
<1> HIDE DEF n, D
<1>3. s \in Seq(1..n)
  BY <1>1, InOrderIs
<1> HIDE DEF s
<1>4. s \in Seq(Nat) /\ Len(s) \in Nat
  BY <1>1, <1>3
<1> QED
  BY <1>2, <1>3, <1>4 DEF n

LEMMA FragmentsAre ==
  ASSUME NEW recs \in Inputs, NEW name
  PROVE  /\ Fragments(recs, name) \in Seq(Text)
         /\ Len(Fragments(recs, name)) = Len(Described(recs, name))
         /\ Contents(Fragments(recs, name)) = Described(recs, name)
<1> DEFINE p == Described(recs, name)
           n == Len(p)
           f == [k \in DOMAIN p |-> [tokens |-> recs[p[k]].tokens, of |-> <<p[k]>>]]
           B(k) == Beginning(f, k)
           C(k) == Beginning(p, k)
<1>1. p \in Seq(1..Len(recs)) /\ p \in Seq(Nat) /\ n \in Nat
  BY DescribedIs
<1>2. \A i \in 1..Len(recs) : recs[i].tokens \in Nat
  BY RecordsAre
<1>3. Fragments(recs, name) = f
  BY DEF Fragments
<1> HIDE DEF p
<1>4. \A k \in 1..n : p[k] \in 1..Len(recs) /\ p[k] \in Nat /\ DOMAIN p = 1..n
  BY <1>1
<1>5. \A k \in 1..n : [tokens |-> recs[p[k]].tokens, of |-> <<p[k]>>] \in Text
  BY <1>2, <1>4 DEF Text
<1>6. f \in Seq(Text) /\ Len(f) = n /\ \A k \in 1..n : f[k].of = <<p[k]>>
  <2>1. DOMAIN p = 1..n
    BY <1>1
  <2> QED
    BY <1>1, <1>5, <2>1
<1> HIDE DEF f, n
<1>7. /\ B(0) = <<>> /\ B(n) = f
      /\ \A k \in 0..n : B(k) \in Seq(Text)
      /\ \A k \in 1..n : f[k] \in Text /\ k - 1 \in 0..n /\ B(k) = Append(B(k - 1), f[k])
  BY <1>6, Beginnings
<1>8. /\ C(0) = <<>> /\ C(n) = p
      /\ \A k \in 0..n : C(k) \in Seq(Nat)
      /\ \A k \in 1..n : k - 1 \in 0..n /\ C(k) = Append(C(k - 1), p[k])
  BY <1>1, Beginnings DEF n
<1> HIDE DEF B, C
<1> DEFINE K == {k \in 0..n : Contents(B(k)) = C(k)}
<1>9. 0 \in K
  BY <1>1, <1>7, <1>8, ContentsEmpty
<1>10. ASSUME NEW k \in 1..n, k - 1 \in K
       PROVE  k \in K
  <2>1. k - 1 \in 0..n /\ k \in 0..n
    BY <1>1
  <2>2. B(k - 1) \in Seq(Text) /\ f[k] \in Text /\ B(k) = Append(B(k - 1), f[k])
    BY <1>7, <2>1
  <2>3. Contents(B(k)) = Contents(B(k - 1)) \o f[k].of
    BY <2>2, ContentsAppend
  <2>4. Contents(B(k)) = C(k - 1) \o <<p[k]>>
    BY <1>6, <1>10, <2>3
  <2>5. C(k - 1) \in Seq(Nat) /\ C(k) = Append(C(k - 1), p[k]) /\ p[k] \in Nat
    BY <1>4, <1>8, <2>1
  <2>6. C(k - 1) \o <<p[k]>> = Append(C(k - 1), p[k])
    BY <2>5
  <2> QED
    BY <2>1, <2>4, <2>5, <2>6
<1>11. \A k \in 0..n : k \in K
  <2> HIDE DEF K
  <2> QED
    BY <1>1, <1>9, <1>10, InductionUpTo
<1>12. n \in 0..n
  BY <1>1
<1> QED
  BY <1>3, <1>6, <1>7, <1>8, <1>11, <1>12 DEF p, n

LEMMA KeywordsAre ==
  ASSUME NEW S, NEW s \in Seq(S), NEW x \in ToSet(s)
  PROVE  x.keywords \in ToSet(KeywordsSeen(s)) \cup {NoKeywords}
<1> DEFINE n == Len(s)
           V == Seq({r.keywords : r \in S})
<1>1. n \in Nat /\ DOMAIN s = 1..n /\ \A k \in 1..n : s[k] \in S
  OBVIOUS
<1>2. <<>> \in V /\ \A v \in V, k \in 1..n : Append(v, s[k].keywords) \in V
  BY <1>1
<1> HIDE DEF n, V
<1>3. \A v \in V, k \in 1..n :
        (IF s[k].keywords = NoKeywords \/ Contains(v, s[k].keywords) THEN v
         ELSE Append(v, s[k].keywords)) \in V
  BY <1>2
<1>4. PICK a \in [0..n -> V] : KeywordsTraces(s, n, a)
  BY <1>1, <1>2, <1>3, KeywordsTrace
<1> DEFINE K == {k \in 0..n : \A i \in 1..k : s[i].keywords \in ToSet(a[k]) \cup {NoKeywords}}
<1>5. 0 \in K
  BY <1>1
<1>6. ASSUME NEW k \in 1..n, k - 1 \in K
      PROVE  k \in K
  <2> DEFINE v == a[k - 1]
             y == s[k].keywords
  <2>1. k - 1 \in 0..n /\ k \in 0..n
    BY <1>1
  <2>2. v \in V /\ a[k] = IF y = NoKeywords \/ Contains(v, y) THEN v ELSE Append(v, y)
    BY <1>4, <2>1 DEF KeywordsTraces
  <2>3. \A i \in 1..(k - 1) : s[i].keywords \in ToSet(v) \cup {NoKeywords}
    BY <1>6
  <2>4. \A i \in 1..k : i \in 1..(k - 1) \/ i = k
    BY <1>1
  <2> HIDE DEF v
  <2>5. CASE y = NoKeywords \/ Contains(v, y)
    <3>1. y \in ToSet(v) \cup {NoKeywords}
      BY <2>2, <2>5 DEF Contains, ToSet, V
    <3>2. a[k] = v
      BY <2>2, <2>5
    <3> QED
      BY <2>1, <2>3, <2>4, <3>1, <3>2
  <2>6. CASE ~(y = NoKeywords \/ Contains(v, y))
    <3>1. a[k] = Append(v, y)
      BY <2>2, <2>6
    <3>2. ToSet(a[k]) = ToSet(v) \cup {y}
      BY <2>2, <3>1, AppendHolds DEF V
    <3> QED
      BY <2>1, <2>3, <2>4, <3>2
  <2> QED
    BY <2>5, <2>6
<1>7. \A k \in 0..n : k \in K
  <2> HIDE DEF K
  <2> QED
    BY <1>1, <1>5, <1>6, InductionUpTo
<1>8. a[n] = KeywordsSeen(s) /\ n \in 0..n
  BY <1>1, <1>4 DEF KeywordsTraces
<1>9. PICK i \in 1..n : x = s[i]
  BY <1>1 DEF ToSet
<1> QED
  BY <1>7, <1>8, <1>9

-----------------------------------------------------------------------------
(* The merge: what the records of a group add up to.                       *)

LEMMA PickedIs ==
  ASSUME NEW recs \in Inputs
  PROVE  /\ Picked(recs, <<>>) = <<>>
         /\ \A p \in Seq(1..Len(recs)) :
              /\ Picked(recs, p) \in Seq(ToSet(recs))
              /\ \A i \in 1..Len(recs) : Picked(recs, Append(p, i)) = Append(Picked(recs, p), recs[i])
<1> DEFINE n == Len(recs)
<1>1. n \in Nat /\ \A i \in 1..n : recs[i] \in ToSet(recs)
  BY RecordsAre
<1> HIDE DEF n
<1>2. ASSUME NEW p \in Seq(1..n)
      PROVE  Picked(recs, p) \in Seq(ToSet(recs)) /\ Len(Picked(recs, p)) = Len(p)
             /\ \A k \in 1..Len(p) : Picked(recs, p)[k] = recs[p[k]]
  <2>3. DOMAIN p = 1..Len(p) /\ Len(p) \in Nat
    OBVIOUS
  <2>1. DOMAIN p = 1..Len(p) /\ Len(p) \in Nat /\ \A k \in 1..Len(p) : p[k] \in 1..n
    BY <2>3, ElementOfSeq
  <2>2. \A k \in 1..Len(p) : recs[p[k]] \in ToSet(recs)
    BY <1>1, <2>1
  <2> QED
    BY <2>1, <2>2 DEF Picked
<1>3. ASSUME NEW p \in Seq(1..n), NEW i \in 1..n
      PROVE  Picked(recs, Append(p, i)) = Append(Picked(recs, p), recs[i])
  <2> DEFINE q == Append(p, i)
             x == Picked(recs, q)
             y == Append(Picked(recs, p), recs[i])
             l == Len(p)
  <2>1. q \in Seq(1..n) /\ Len(q) = l + 1 /\ l \in Nat /\ q[l + 1] = i
        /\ \A k \in 1..l : q[k] = p[k]
    <3>1. q \in Seq(1..n)
      OBVIOUS
    <3> QED
      BY <3>1, AppendIs
  <2> HIDE DEF q
  <2>2. /\ x \in Seq(ToSet(recs)) /\ Len(x) = l + 1
        /\ \A k \in 1..(l + 1) : x[k] = recs[q[k]]
    BY <1>2, <2>1
  <2>3. Picked(recs, p) \in Seq(ToSet(recs)) /\ Len(Picked(recs, p)) = l
        /\ \A k \in 1..l : Picked(recs, p)[k] = recs[p[k]]
    BY <1>2
  <2>4. y \in Seq(ToSet(recs))
    BY <1>1, <2>3
  <2>5. /\ Len(y) = l + 1 /\ y[l + 1] = recs[i]
        /\ \A k \in 1..l : y[k] = Picked(recs, p)[k]
    BY <2>3, AppendIs
  <2> HIDE DEF x, y, l
  <2>6. \A k \in 1..(l + 1) : k \in 1..l \/ k = l + 1
    BY <2>1
  <2>7. \A k \in 1..(l + 1) : x[k] = y[k]
    BY <2>1, <2>2, <2>3, <2>5, <2>6
  <2>8. x = y
    BY <2>2, <2>4, <2>5, <2>7, SeqEqual
  <2> QED
    BY <2>8 DEF x, y, q
<1>4. Picked(recs, <<>>) = <<>>
  BY DEF Picked
<1> QED
  BY <1>2, <1>3, <1>4 DEF n

\* The weight of the records at some places.
WeightAt(recs, set) == Weight(Picked(recs, InOrder(set, Len(recs))))

\* The weights of two groups add up.
LEMMA WeightsAdd ==
  ASSUME NEW recs \in Inputs, NEW A, NEW B, A \cap B = {}
  PROVE  /\ WeightAt(recs, A) \in Int /\ WeightAt(recs, B) \in Int
         /\ WeightAt(recs, A \cup B) = WeightAt(recs, A) + WeightAt(recs, B)
<1> DEFINE n == Len(recs)
           W(p) == Weight(Picked(recs, p))
<1>1. n \in Nat /\ \A i \in 1..n : recs[i] \in ToSet(recs)
  BY RecordsAre
<1>2. \A x \in ToSet(recs) : x.weight \in Int
  BY RecordsAre
<1>3. W(<<>>) = 0
  BY PickedIs, WeightEmpty
<1>4. ASSUME NEW p \in Seq(1..n), NEW i \in 1..n
      PROVE  W(p) \in Int /\ W(Append(p, i)) = W(p) + recs[i].weight /\ recs[i].weight \in Int
  <2>1. Picked(recs, p) \in Seq(ToSet(recs)) /\ recs[i] \in ToSet(recs)
        /\ Picked(recs, Append(p, i)) = Append(Picked(recs, p), recs[i])
    BY <1>1, PickedIs
  <2> QED
    BY <1>2, <2>1, WeightAppend
<1>5. PICK a \in [0..n -> Seq(1..n)] : PlacesTraces(A, n, a)
  BY <1>1, PlacesTrace
<1>6. PICK b \in [0..n -> Seq(1..n)] : PlacesTraces(B, n, b)
  BY <1>1, PlacesTrace
<1>7. PICK c \in [0..n -> Seq(1..n)] : PlacesTraces(A \cup B, n, c)
  BY <1>1, PlacesTrace
<1>8. /\ W(a[n]) = WeightAt(recs, A) /\ W(b[n]) = WeightAt(recs, B)
      /\ W(c[n]) = WeightAt(recs, A \cup B)
  BY <1>5, <1>6, <1>7 DEF PlacesTraces, WeightAt
<1> HIDE DEF n, W
<1> DEFINE K == {k \in 0..n : /\ W(a[k]) \in Int /\ W(b[k]) \in Int
                              /\ W(c[k]) = W(a[k]) + W(b[k])}
<1>9. 0 \in K
  <2>1. a[0] = <<>> /\ b[0] = <<>> /\ c[0] = <<>> /\ 0 \in 0..n
    BY <1>1, <1>5, <1>6, <1>7 DEF PlacesTraces
  <2> QED
    BY <1>3, <2>1
<1>10. ASSUME NEW k \in 1..n, k - 1 \in K
       PROVE  k \in K
  <2> DEFINE u == a[k - 1]
             v == b[k - 1]
             w == c[k - 1]
  <2>1. k - 1 \in 0..n /\ k \in 0..n
    BY <1>1
  <2>2. /\ u \in Seq(1..n) /\ v \in Seq(1..n) /\ w \in Seq(1..n)
        /\ W(u) \in Int /\ W(v) \in Int /\ W(w) = W(u) + W(v)
    BY <1>10, <2>1
  <2>3. /\ a[k] = IF k \in A THEN Append(u, k) ELSE u
        /\ b[k] = IF k \in B THEN Append(v, k) ELSE v
        /\ c[k] = IF k \in A \cup B THEN Append(w, k) ELSE w
    BY <1>5, <1>6, <1>7 DEF PlacesTraces
  <2> DEFINE x == recs[k].weight
  <2>4. /\ W(Append(u, k)) = W(u) + x /\ W(Append(v, k)) = W(v) + x
        /\ W(Append(w, k)) = W(w) + x /\ x \in Int
    BY <1>4, <2>2
  <2> HIDE DEF u, v, w, x
  <2>5. CASE k \in A
    <3>1. a[k] = Append(u, k) /\ b[k] = v /\ c[k] = Append(w, k)
      BY <2>3, <2>5
    <3>2. W(a[k]) = W(u) + x /\ W(b[k]) = W(v) /\ W(c[k]) = W(w) + x
      BY <2>4, <3>1
    <3>3. W(a[k]) \in Int /\ W(b[k]) \in Int /\ W(c[k]) = W(a[k]) + W(b[k])
      BY <2>2, <2>4, <3>2
    <3> QED
      BY <2>1, <3>3
  <2>6. CASE k \in B
    <3>1. a[k] = u /\ b[k] = Append(v, k) /\ c[k] = Append(w, k)
      BY <2>3, <2>6
    <3>2. W(a[k]) = W(u) /\ W(b[k]) = W(v) + x /\ W(c[k]) = W(w) + x
      BY <2>4, <3>1
    <3>3. W(a[k]) \in Int /\ W(b[k]) \in Int /\ W(c[k]) = W(a[k]) + W(b[k])
      BY <2>2, <2>4, <3>2
    <3> QED
      BY <2>1, <3>3
  <2>7. CASE k \notin A \cup B
    <3>1. a[k] = u /\ b[k] = v /\ c[k] = w
      BY <2>3, <2>7
    <3> QED
      BY <2>1, <2>2, <3>1
  <2> QED
    BY <2>5, <2>6, <2>7
<1>11. \A k \in 0..n : k \in K
  <2> HIDE DEF K
  <2> QED
    BY <1>1, <1>9, <1>10, InductionUpTo
<1>12. n \in 0..n
  BY <1>1
<1> QED
  BY <1>8, <1>11, <1>12

LEMMA WeightOfAll ==
  ASSUME NEW recs \in Inputs
  PROVE  WeightAt(recs, DOMAIN recs) = Weight(recs) /\ WeightAt(recs, {}) = 0
<1> DEFINE n == Len(recs)
<1>1. n \in Nat /\ DOMAIN recs = 1..n /\ recs = [i \in 1..n |-> recs[i]]
  BY RecordsAre
<1>2. InOrder(1..n, n) = [i \in 1..n |-> i]
  BY <1>1, AllInOrder
<1>3. Picked(recs, [i \in 1..n |-> i]) = recs
  <2> HIDE DEF n
  <2> QED
    BY <1>1 DEF Picked
<1>4. InOrder({}, n) = <<>>
  <2>1. InOrder({}, n) \in Seq(1..n) /\ ToSet(InOrder({}, n)) = {}
    BY <1>1, InOrderIs
  <2> DEFINE s == InOrder({}, n)
  <2> HIDE DEF s, n
  <2>2. DOMAIN s = {}
    BY <2>1 DEF ToSet, s
  <2>3. s = <<>>
    <3>1. s \in Seq(1..n) /\ DOMAIN s = 1..Len(s) /\ Len(s) \in Nat
      BY <2>1 DEF s
    <3>2. Len(s) = 0
      <4>1. Len(s) # 0 => 1 \in DOMAIN s
        BY <3>1
      <4> QED
        BY <2>2, <4>1
    <3> QED
      BY <3>1, <3>2, EmptySeq
  <2> QED
    BY <2>3 DEF s
<1>5. Weight(Picked(recs, <<>>)) = 0
  BY PickedIs, WeightEmpty
<1> QED
  BY <1>1, <1>2, <1>3, <1>4, <1>5 DEF WeightAt

\* A group has the sources and keywords of each of its records.
LEMMA GroupIs ==
  ASSUME NEW recs \in Inputs, NEW name
  PROVE  /\ Weight(Group(recs, name)) = WeightAt(recs, PlacesOf(recs, name))
         /\ \A i \in PlacesOf(recs, name) :
              /\ recs[i].sources \subseteq Sources(Group(recs, name))
              /\ recs[i].keywords \in ToSet(KeywordsSeen(Group(recs, name))) \cup {NoKeywords}
<1> DEFINE n == Len(recs)
           P == PlacesOf(recs, name)
           p == InOrder(P, n)
           g == Group(recs, name)
<1>1. n \in Nat /\ P \subseteq 1..n
  BY RecordsAre DEF PlacesOf
<1>2. g = Picked(recs, p)
  BY DEF Group, PlacesOf
<1>3. Weight(g) = WeightAt(recs, P)
  BY <1>2 DEF WeightAt
<1> HIDE DEF P, g
<1>4. p \in Seq(1..n) /\ ToSet(p) = P
  BY <1>1, InOrderIs
<1> HIDE DEF p
<1>5. g \in Seq(ToSet(recs))
  BY <1>2, <1>4, PickedIs
<1>6. ASSUME NEW i \in P
      PROVE  recs[i] \in ToSet(g)
  <2>1. PICK k \in DOMAIN p : p[k] = i
    BY <1>4 DEF ToSet
  <2>2. g[k] = recs[i] /\ k \in DOMAIN g
    BY <1>2, <2>1 DEF Picked
  <2> QED
    BY <2>2 DEF ToSet
<1>7. ASSUME NEW i \in P
      PROVE  /\ recs[i].sources \subseteq Sources(g)
             /\ recs[i].keywords \in ToSet(KeywordsSeen(g)) \cup {NoKeywords}
  <2>1. recs[i].sources \subseteq Sources(g)
    BY <1>6 DEF Sources
  <2>2. recs[i].keywords \in ToSet(KeywordsSeen(g)) \cup {NoKeywords}
    BY <1>5, <1>6, KeywordsAre
  <2> QED
    BY <2>1, <2>2
<1> QED
  BY <1>3, <1>7 DEF P, g

-----------------------------------------------------------------------------
(* The merge: the invariant.                                               *)

\* The result of the k-th group, when text was made of it with n calls.
ResultOf(recs, k, text, n) ==
  LET name == Names(recs)[k]
  IN  [name |-> name, text |-> text, asked |-> n,
       weight |-> Weight(Group(recs, name)), sources |-> Sources(Group(recs, name)),
       keywords |-> KeywordsSeen(Group(recs, name))]
Results(recs) == {ResultOf(recs, k, t, n) : k \in DOMAIN Names(recs), t \in Text, n \in Nat}

\* A text of all descriptions of a group, for which fewer calls were made than
\* there are descriptions.
TextOfAll(recs, name, text, n) ==
  /\ text \in Text /\ text.of = Described(recs, name)
  /\ n \in Nat /\ (n # 0 => n < Len(Described(recs, name)))

\* The places of the first k groups.
Seen(recs, k) == {i \in DOMAIN recs : \E j \in 1..k : GroupKey(recs[i]) = Names(recs)[j]}

MergedAre(recs, results) ==
  /\ results \in Seq(Results(recs)) /\ Len(results) <= Len(Names(recs))
  /\ \A k \in DOMAIN results : \E t \in Text, n \in Nat :
       results[k] = ResultOf(recs, k, t, n) /\ TextOfAll(recs, Names(recs)[k], t, n)
  /\ Weight(results) = WeightAt(recs, Seen(recs, Len(results)))

\* The texts there are were made of all descriptions of the group, with as
\* many calls as there are texts less, at most.
Covers(recs, name, n, texts) ==
  /\ Contents(texts) = Described(recs, name)
  /\ n + Len(texts) <= Len(Described(recs, name))

MergeTypeOK ==
  /\ records \in Inputs
  /\ mergeAt \in {"group", "level", "reduce", "merged", "failed"}
  /\ descs \in Seq(Text) /\ partials \in Seq(Text) /\ chunks \in Seq(Seq(Text))
  /\ asked \in Nat

GroupUnderWay ==
  /\ mergeAt \in {"level", "reduce"} => Len(merged) < Len(Names(records))
  /\ mergeAt = "merged" => Len(merged) = Len(Names(records))

LevelCovers ==
  mergeAt = "level" =>
    Covers(records, Current, asked, descs) /\ (asked # 0 => Len(descs) > 0)

ReduceCovers ==
  mergeAt = "reduce" =>
    /\ Covers(records, Current, asked, partials \o FlattenSeq(chunks))
    /\ 2 * (Len(partials) + Len(chunks)) <= Len(descs) + 1
    /\ Len(partials) + Len(chunks) > 0
    /\ \A i \in DOMAIN chunks : Len(chunks[i]) > 0

\* The inductive invariant.
MergeInv == MergeTypeOK /\ MergedAre(records, merged) /\ GroupUnderWay /\ LevelCovers /\ ReduceCovers

LEMMA JoinedIsText ==
  ASSUME NEW texts \in Seq(Text)
  PROVE  Joined(texts) \in Text /\ Joined(texts).of = Contents(texts) /\ Contents(texts) \in Seq(Nat)
<1>1. Tokens(texts) \in Nat
  <2>1. \A x \in Text : x.tokens \in Nat
    BY DEF Text
  <2> QED
    BY <2>1, TokensNat
<1>2. Contents(texts) \in Seq(Nat)
  BY ContentsConcat
<1> QED
  BY <1>1, <1>2 DEF Joined, Text

\* One more result.
LEMMA MergedGrows ==
  ASSUME NEW recs \in Inputs, NEW results, MergedAre(recs, results),
         Len(results) < Len(Names(recs)), NEW t, NEW n,
         TextOfAll(recs, Names(recs)[Len(results) + 1], t, n)
  PROVE  MergedAre(recs, Append(results, ResultOf(recs, Len(results) + 1, t, n)))
<1> DEFINE l == Len(results)
           m == l + 1
           name == Names(recs)[m]
           r == ResultOf(recs, m, t, n)
           w == Append(results, r)
           R == Results(recs)
<1>1. /\ Len(Names(recs)) \in Nat /\ DOMAIN Names(recs) = 1..Len(Names(recs))
      /\ \A j, k \in DOMAIN Names(recs) : Names(recs)[j] = Names(recs)[k] => j = k
  BY NamesAre
<1>2. results \in Seq(R) /\ l \in Nat /\ DOMAIN results = 1..l
  BY DEF MergedAre
<1>3. m \in DOMAIN Names(recs) /\ m \in Nat
  BY <1>1, <1>2
<1>4. t \in Text /\ n \in Nat
  BY DEF TextOfAll
<1>5. r \in R
  BY <1>3, <1>4 DEF Results
<1> HIDE DEF r, R
<1>6. /\ w \in Seq(R) /\ Len(w) = m /\ DOMAIN w = 1..m /\ w[m] = r
      /\ \A k \in 1..l : w[k] = results[k]
  <2>1. w \in Seq(R)
    BY <1>2, <1>5
  <2> QED
    BY <1>2, <2>1, AppendIs
<1>7. Len(w) <= Len(Names(recs))
  BY <1>1, <1>2, <1>6
<1>8. ASSUME NEW k \in 1..m
      PROVE  \E u \in Text, i \in Nat :
               w[k] = ResultOf(recs, k, u, i) /\ TextOfAll(recs, Names(recs)[k], u, i)
  <2>1. CASE k = m
    BY <1>4, <1>6, <2>1 DEF r
  <2>2. CASE k # m
    <3>1. k \in 1..l
      BY <1>2, <2>2
    <3> QED
      BY <1>2, <1>6, <3>1 DEF MergedAre
  <2> QED
    BY <2>1, <2>2
<1>9. Weight(w) = WeightAt(recs, Seen(recs, m))
  <2> DEFINE A == Seen(recs, l)
             B == PlacesOf(recs, name)
  <2>1. r.weight = WeightAt(recs, B)
    <3>1. r.weight = Weight(Group(recs, name))
      BY DEF r, ResultOf
    <3> QED
      BY <3>1, GroupIs
  <2>2. A \cap B = {}
    <3> SUFFICES ASSUME NEW i \in A, i \in B PROVE FALSE
      OBVIOUS
    <3>1. PICK j \in 1..l : GroupKey(recs[i]) = Names(recs)[j]
      BY DEF Seen
    <3>2. Names(recs)[j] = Names(recs)[m] /\ j \in DOMAIN Names(recs) /\ j # m
      BY <1>1, <1>2, <1>3, <3>1 DEF PlacesOf
    <3> QED
      BY <1>1, <1>3, <3>2
  <2>3. Seen(recs, m) = A \cup B
    <3>1. \A j \in 1..m : j \in 1..l \/ j = m
      BY <1>2
    <3>2. \A j \in 1..l : j \in 1..m
      BY <1>2
    <3>3. m \in 1..m
      BY <1>2
    <3> QED
      BY <3>1, <3>2, <3>3 DEF Seen, PlacesOf
  <2>4. Weight(results) = WeightAt(recs, A)
    BY DEF MergedAre
  <2> HIDE DEF A, B
  <2>5. /\ WeightAt(recs, A) \in Int /\ WeightAt(recs, B) \in Int
        /\ WeightAt(recs, A \cup B) = WeightAt(recs, A) + WeightAt(recs, B)
    BY <2>2, WeightsAdd
  <2>6. \A x \in R : x.weight \in Int
    <3> SUFFICES ASSUME NEW x \in R PROVE x.weight \in Int
      OBVIOUS
    <3>1. PICK k \in DOMAIN Names(recs) : x.weight = Weight(Group(recs, Names(recs)[k]))
      BY DEF R, Results, ResultOf
    <3>2. Weight(Group(recs, Names(recs)[k])) = WeightAt(recs, PlacesOf(recs, Names(recs)[k]))
      BY GroupIs
    <3>3. WeightAt(recs, PlacesOf(recs, Names(recs)[k])) \in Int
      <4>1. PlacesOf(recs, Names(recs)[k]) \cap {} = {}
        OBVIOUS
      <4> QED
        BY <4>1, WeightsAdd
    <3> QED
      BY <3>1, <3>2, <3>3
  <2>7. Weight(w) = Weight(results) + r.weight
    BY <1>2, <1>5, <2>6, WeightAppend
  <2> QED
    BY <2>1, <2>3, <2>4, <2>5, <2>7
<1>10. MergedAre(recs, w)
  BY <1>6, <1>7, <1>8, <1>9 DEF MergedAre, R
<1> QED
  BY <1>10 DEF r

\* A window is taken from the front: passed through or summarized.
LEMMA WindowTaken ==
  ASSUME NEW p \in Seq(Text), NEW cs \in Seq(Seq(Text)), cs # <<>>, NEW size \in Nat
  PROVE  /\ Head(cs) \in Seq(Text) /\ Tail(cs) \in Seq(Seq(Text))
         /\ Len(Tail(cs)) = Len(cs) - 1
         /\ \A i \in DOMAIN Tail(cs) : \E j \in DOMAIN cs : Tail(cs)[i] = cs[j]
         /\ [tokens |-> size, of |-> Contents(Head(cs))] \in Text
         /\ (p \o Head(cs)) \o FlattenSeq(Tail(cs)) = p \o FlattenSeq(cs)
         /\ LET q == Append(p, [tokens |-> size, of |-> Contents(Head(cs))]) \o FlattenSeq(Tail(cs))
            IN  /\ Contents(q) = Contents(p \o FlattenSeq(cs))
                /\ Len(q) = Len(p) + 1 + Len(FlattenSeq(Tail(cs)))
                /\ Len(p \o FlattenSeq(cs)) = Len(p) + Len(Head(cs)) + Len(FlattenSeq(Tail(cs)))
                /\ {Len(p), Len(Head(cs)), Len(FlattenSeq(Tail(cs)))} \subseteq Nat
<1> DEFINE h == Head(cs)
           f == FlattenSeq(Tail(cs))
           x == [tokens |-> size, of |-> Contents(h)]
           all == FlattenSeq(cs)
<1>1. h \in Seq(Text) /\ Tail(cs) \in Seq(Seq(Text)) /\ f \in Seq(Text) /\ all = h \o f
  BY FlattenCons
<1>2. Len(Tail(cs)) = Len(cs) - 1
  OBVIOUS
<1>3. ASSUME NEW i \in DOMAIN Tail(cs)
      PROVE  \E j \in DOMAIN cs : Tail(cs)[i] = cs[j]
  <2>1. Tail(cs)[i] = cs[i + 1] /\ i + 1 \in DOMAIN cs
    OBVIOUS
  <2> QED
    BY <2>1
<1> HIDE DEF h, f, all
<1>4. Contents(h) \in Seq(Nat) /\ Contents(p) \in Seq(Nat) /\ Contents(f) \in Seq(Nat)
  BY <1>1, ContentsConcat
<1>5. x \in Text /\ x.of = Contents(h)
  BY <1>4 DEF Text
<1> HIDE DEF x
<1>6. (p \o h) \o f = p \o all
  <2>1. AllIn(Text, p, h, f) /\ all = h \o f
    BY <1>1 DEF AllIn
  <2>2. Associate(p, h, f)
    BY <2>1, ConcatOfThree
  <2> QED
    BY <2>1, <2>2 DEF Associate
<1>7. Append(p, x) \in Seq(Text) /\ p \o h \in Seq(Text)
  BY <1>1, <1>5
<1>8. Contents(Append(p, x) \o f) = Contents(Append(p, x)) \o Contents(f)
  BY <1>1, <1>7, ContentsConcat
<1>9. Contents(Append(p, x)) = Contents(p) \o Contents(h)
  BY <1>5, ContentsAppend
<1>10. Contents((p \o h) \o f) = Contents(p \o h) \o Contents(f) /\ Contents(p \o h) = Contents(p) \o Contents(h)
  BY <1>1, <1>7, ContentsConcat
<1>11. Contents(Append(p, x) \o f) = Contents(p \o all)
  BY <1>6, <1>8, <1>9, <1>10
<1>12. /\ Len(Append(p, x) \o f) = Len(p) + 1 + Len(f)
       /\ Len((p \o h) \o f) = Len(p) + Len(h) + Len(f)
       /\ Len(p) \in Nat /\ Len(h) \in Nat /\ Len(f) \in Nat
  <2>1. Len(Append(p, x)) = Len(p) + 1 /\ Len(p \o h) = Len(p) + Len(h)
    BY <1>1, <1>5
  <2>2. Len(Append(p, x) \o f) = Len(Append(p, x)) + Len(f) /\ Len((p \o h) \o f) = Len(p \o h) + Len(f)
    BY <1>1, <1>7
  <2> QED
    BY <1>1, <2>1, <2>2
<1> QED
  BY <1>1, <1>2, <1>3, <1>5, <1>6, <1>11, <1>12 DEF x, h, f, all

-----------------------------------------------------------------------------
(* The merge: each step keeps the invariant.                               *)

LEMMA MergeInitInv == MergeInit => MergeInv
<1> SUFFICES ASSUME MergeInit PROVE MergeInv
  OBVIOUS
<1>1. <<>> \in Seq(Text) /\ <<>> \in Seq(Seq(Text)) /\ <<>> \in Seq(Results(records))
      /\ Len(<<>>) = 0 /\ DOMAIN <<>> = {} /\ 1..0 = {}
  OBVIOUS
<1>2. records \in Inputs /\ merged = <<>>
  BY DEF MergeInit
<1>3. Len(Names(records)) \in Nat
  BY <1>2, NamesAre
<1>4. Seen(records, 0) = {}
  BY <1>1 DEF Seen
<1>5. Weight(<<>>) = 0 /\ WeightAt(records, {}) = 0
  BY <1>2, WeightEmpty, WeightOfAll
<1>6. MergedAre(records, <<>>)
  <2>1. <<>> \in Seq(Results(records)) /\ Len(<<>>) =< Len(Names(records))
    BY <1>1, <1>3
  <2>2. \A k \in DOMAIN <<>> :
          \E t \in Text, n \in Nat :
             <<>>[k] = ResultOf(records, k, t, n) /\ TextOfAll(records, Names(records)[k], t, n)
    BY <1>1
  <2>3. Weight(<<>>) = WeightAt(records, Seen(records, Len(<<>>)))
    BY <1>1, <1>4, <1>5
  <2> QED
    BY <2>1, <2>2, <2>3 DEF MergedAre
<1>7. MergeTypeOK
  BY <1>1 DEF MergeInit, MergeTypeOK
<1>8. GroupUnderWay /\ LevelCovers /\ ReduceCovers
  BY DEF MergeInit, GroupUnderWay, LevelCovers, ReduceCovers
<1> QED
  BY <1>2, <1>6, <1>7, <1>8 DEF MergeInv

\* A group is complete: its result is one more, whatever made its text.
LEMMA GiveKeeps ==
  ASSUME MergeInv, mergeAt \in {"level", "reduce"}, NEW text,
         asked' \in Nat, TextOfAll(records, Current, text, asked'),
         Give(text), UNCHANGED <<records, descs, chunks, partials>>
  PROVE  MergeInv'
<1> DEFINE m == Len(merged) + 1
<1>1. records \in Inputs /\ MergedAre(records, merged) /\ Len(merged) < Len(Names(records))
  BY DEF MergeInv, MergeTypeOK, GroupUnderWay
<1>2. Current = Names(records)[m]
  BY DEF Current
<1>3. merged' = Append(merged, ResultOf(records, m, text, asked'))
  BY <1>2 DEF Give, ResultOf
<1>4. TextOfAll(records, Names(records)[m], text, asked')
  BY <1>2
<1>5. MergedAre(records, merged')
  BY <1>1, <1>3, <1>4, MergedGrows
<1>6. mergeAt' = "group"
  BY DEF Give
<1>7. MergeTypeOK'
  BY <1>6 DEF MergeInv, MergeTypeOK
<1>8. MergedAre(records, merged)'
  BY <1>5
<1>9. GroupUnderWay' /\ LevelCovers' /\ ReduceCovers'
  BY <1>6 DEF GroupUnderWay, LevelCovers, ReduceCovers
<1> QED
  BY <1>7, <1>8, <1>9 DEF MergeInv

\* Where the windows are gone, the partials are of all descriptions.
LEMMA PartialsCover ==
  ASSUME MergeInv, mergeAt = "reduce", chunks = <<>>
  PROVE  /\ Contents(partials) = Described(records, Current)
         /\ asked + Len(partials) <= Len(Described(records, Current))
         /\ Len(partials) > 0 /\ Len(partials) \in Nat
         /\ Len(Described(records, Current)) \in Nat
<1>1. partials \in Seq(Text) /\ records \in Inputs
  BY DEF MergeInv, MergeTypeOK
<1>2. partials \o FlattenSeq(chunks) = partials /\ Len(chunks) = 0
  BY <1>1, FlattenEmpty
<1>3. Covers(records, Current, asked, partials) /\ Len(partials) + Len(chunks) > 0
  BY <1>2 DEF MergeInv, ReduceCovers
<1>4. Len(partials) \in Nat /\ Len(partials) > 0
  BY <1>1, <1>2, <1>3
<1>5. Len(Described(records, Current)) \in Nat
  BY <1>1, DescribedIs
<1> QED
  BY <1>3, <1>4, <1>5 DEF Covers

LEMMA MergeStays ==
  ASSUME MergeInv, UNCHANGED <<records, merged, descs, chunks, partials>>, asked' \in Nat,
         mergeAt' \in {"group", "merged", "failed"},
         mergeAt' = "merged" => Len(merged) = Len(Names(records))
  PROVE  MergeInv'
<1>1. MergeTypeOK'
  BY DEF MergeInv, MergeTypeOK
<1>2. MergedAre(records, merged)'
  BY DEF MergeInv
<1>3. GroupUnderWay' /\ LevelCovers' /\ ReduceCovers'
  BY DEF GroupUnderWay, LevelCovers, ReduceCovers
<1> QED
  BY <1>1, <1>2, <1>3 DEF MergeInv

LEMMA BeginGroupKeeps == ASSUME MergeInv, BeginGroup PROVE MergeInv'
<1> DEFINE f == Fragments(records, Current)
<1>1. /\ records' = records /\ merged' = merged /\ chunks' = chunks /\ partials' = partials
      /\ mergeAt' = "level" /\ descs' = f /\ asked' = 0 /\ Len(merged) < Len(Names(records))
  BY DEF BeginGroup, arguments
<1>2. records \in Inputs
  BY DEF MergeInv, MergeTypeOK
<1>3. f \in Seq(Text) /\ Len(f) = Len(Described(records, Current)) /\ Contents(f) = Described(records, Current)
  BY <1>2, FragmentsAre
<1>4. Len(Described(records, Current)) \in Nat
  BY <1>2, DescribedIs
<1>5. Covers(records, Current, 0, f)
  BY <1>3, <1>4 DEF Covers
<1>6. Current' = Current
  BY <1>1 DEF Current
<1> HIDE DEF f
<1>7. MergeTypeOK'
  BY <1>1, <1>3 DEF MergeInv, MergeTypeOK
<1>8. MergedAre(records, merged)'
  BY <1>1 DEF MergeInv
<1>9. GroupUnderWay' /\ LevelCovers' /\ ReduceCovers'
  BY <1>1, <1>5, <1>6 DEF GroupUnderWay, LevelCovers, ReduceCovers
<1> QED
  BY <1>7, <1>8, <1>9 DEF MergeInv

LEMMA GiveAsIsKeeps == ASSUME MergeInv, GiveAsIs PROVE MergeInv'
<1>1. /\ mergeAt = "level" /\ asked' = asked /\ Give(Joined(descs))
      /\ UNCHANGED <<records, descs, chunks, partials>>
  BY DEF GiveAsIs, arguments
<1>2. records \in Inputs /\ descs \in Seq(Text) /\ asked \in Nat
  BY DEF MergeInv, MergeTypeOK
<1>3. Covers(records, Current, asked, descs) /\ (asked # 0 => Len(descs) > 0)
  BY <1>1 DEF MergeInv, LevelCovers
<1>4. Joined(descs) \in Text /\ Joined(descs).of = Contents(descs)
  BY <1>2, JoinedIsText
<1>5. Len(descs) \in Nat /\ Len(Described(records, Current)) \in Nat
  BY <1>2, DescribedIs
<1>6. TextOfAll(records, Current, Joined(descs), asked')
  BY <1>1, <1>2, <1>3, <1>4, <1>5 DEF Covers, TextOfAll
<1> QED
  BY <1>1, <1>2, <1>6, GiveKeeps

LEMMA SplitKeeps == ASSUME MergeInv, Split PROVE MergeInv'
<1> DEFINE cs == chunkByTokens(descs)
<1>1. /\ mergeAt = "level" /\ Len(descs) > 1 /\ mergeAt' = "reduce"
      /\ chunks' = cs /\ partials' = <<>>
      /\ UNCHANGED <<records, merged, descs, asked>>
  BY DEF Split, arguments
<1>2. records \in Inputs /\ descs \in Seq(Text) /\ asked \in Nat
  BY DEF MergeInv, MergeTypeOK
<1>3. /\ cs \in Seq(Seq(Text)) /\ cs # <<>> /\ FlattenSeq(cs) = descs
      /\ \A i \in DOMAIN cs : Len(cs[i]) > 0
      /\ 2 * Len(cs) <= Len(descs) + 1
  BY <1>1, <1>2, WindowsAre
<1> HIDE DEF cs
<1>4. Covers(records, Current, asked, descs)
  BY <1>1 DEF MergeInv, LevelCovers
<1>5. <<>> \o FlattenSeq(cs) = descs /\ Len(<<>>) = 0 /\ <<>> \in Seq(Text)
  BY <1>2, <1>3
<1>6. Len(cs) \in Nat /\ Len(cs) > 0
  BY <1>3, EmptySeq
<1>7. Current' = Current
  BY <1>1 DEF Current
<1>8. MergeTypeOK'
  BY <1>1, <1>2, <1>3, <1>5 DEF MergeInv, MergeTypeOK
<1>9. MergedAre(records, merged)'
  BY <1>1 DEF MergeInv
<1>10. GroupUnderWay' /\ LevelCovers'
  BY <1>1 DEF MergeInv, GroupUnderWay, LevelCovers
<1>11. ReduceCovers'
  <2>1. Covers(records, Current, asked, <<>> \o FlattenSeq(cs))
    BY <1>4, <1>5
  <2>2. 2 * (0 + Len(cs)) <= Len(descs) + 1 /\ 0 + Len(cs) > 0
    BY <1>3, <1>6
  <2> QED
    BY <1>1, <1>3, <1>5, <1>7, <2>1, <2>2 DEF ReduceCovers
<1> QED
  BY <1>8, <1>9, <1>10, <1>11 DEF MergeInv

\* What stays where a window is reduced.
LEMMA WindowKeeps ==
  ASSUME MergeInv, mergeAt = "reduce", chunks # <<>>,
         UNCHANGED <<records, merged, descs, mergeAt>>, chunks' = Tail(chunks),
         partials' \in Seq(Text), Len(partials') = Len(partials) + 1, asked' \in Nat,
         Covers(records, Current, asked', partials' \o FlattenSeq(Tail(chunks)))
  PROVE  MergeInv'
<1>1. /\ partials \in Seq(Text) /\ chunks \in Seq(Seq(Text)) /\ descs \in Seq(Text)
      /\ 2 * (Len(partials) + Len(chunks)) <= Len(descs) + 1
      /\ \A i \in DOMAIN chunks : Len(chunks[i]) > 0
  BY DEF MergeInv, MergeTypeOK, ReduceCovers
<1>2. /\ Tail(chunks) \in Seq(Seq(Text)) /\ Len(Tail(chunks)) = Len(chunks) - 1
      /\ \A i \in DOMAIN Tail(chunks) : \E j \in DOMAIN chunks : Tail(chunks)[i] = chunks[j]
  <2>1. 0 \in Nat
    OBVIOUS
  <2> QED
    BY <1>1, <2>1, WindowTaken
<1>3. Len(partials) \in Nat /\ Len(chunks) \in Nat /\ Len(descs) \in Nat /\ Len(chunks) > 0
  BY <1>1, EmptySeq
<1>4. /\ 2 * (Len(partials') + Len(chunks')) <= Len(descs') + 1
      /\ Len(partials') + Len(chunks') > 0
  BY <1>1, <1>2, <1>3
<1>5. \A i \in DOMAIN chunks' : Len(chunks'[i]) > 0
  BY <1>1, <1>2
<1>6. Current' = Current
  BY DEF Current
<1>7. MergeTypeOK'
  BY <1>2 DEF MergeInv, MergeTypeOK
<1>8. MergedAre(records, merged)'
  BY DEF MergeInv
<1>9. GroupUnderWay' /\ LevelCovers'
  BY DEF MergeInv, GroupUnderWay, LevelCovers
<1>10. ReduceCovers'
  BY <1>4, <1>5, <1>6 DEF ReduceCovers
<1> QED
  BY <1>7, <1>8, <1>9, <1>10 DEF MergeInv

LEMMA PassThroughKeeps == ASSUME MergeInv, PassThrough PROVE MergeInv'
<1> DEFINE h == Head(chunks)
<1>1. /\ mergeAt = "reduce" /\ chunks # <<>> /\ Len(h) = 1
      /\ partials' = partials \o h /\ chunks' = Tail(chunks)
      /\ UNCHANGED <<records, merged, descs, mergeAt, asked>>
  BY DEF PassThrough, arguments
<1>2. partials \in Seq(Text) /\ chunks \in Seq(Seq(Text)) /\ asked \in Nat /\ 0 \in Nat
  BY DEF MergeInv, MergeTypeOK
<1>3. h \in Seq(Text) /\ (partials \o h) \o FlattenSeq(Tail(chunks)) = partials \o FlattenSeq(chunks)
  BY <1>1, <1>2, WindowTaken
<1>4. Covers(records, Current, asked, partials \o FlattenSeq(chunks))
  BY <1>1 DEF MergeInv, ReduceCovers
<1> HIDE DEF h
<1>5. partials \o h \in Seq(Text) /\ Len(partials \o h) = Len(partials) + 1
  <2>1. partials \o h \in Seq(Text) /\ Len(partials \o h) = Len(partials) + Len(h)
    BY <1>2, <1>3, ConcatProperties
  <2> QED
    BY <1>1, <2>1
<1>6. Covers(records, Current, asked', partials' \o FlattenSeq(Tail(chunks)))
  BY <1>1, <1>3, <1>4
<1>7. partials' \in Seq(Text) /\ Len(partials') = Len(partials) + 1 /\ asked' \in Nat
  BY <1>1, <1>2, <1>5
<1> QED
  BY <1>1, <1>6, <1>7, WindowKeeps

LEMMA ReduceKeeps == ASSUME MergeInv, NEW size \in AnswerSizes, Reduce(size) PROVE MergeInv'
<1> DEFINE h == Head(chunks)
           x == [tokens |-> size, of |-> Contents(h)]
           f == FlattenSeq(Tail(chunks))
           D == Described(records, Current)
<1>1. /\ mergeAt = "reduce" /\ chunks # <<>> /\ Len(h) > 1 /\ asked' = asked + 1
      /\ partials' = Append(partials, x) /\ chunks' = Tail(chunks)
      /\ UNCHANGED <<records, merged, descs, mergeAt>>
  BY DEF Reduce, arguments
<1>2. /\ partials \in Seq(Text) /\ chunks \in Seq(Seq(Text)) /\ asked \in Nat /\ size \in Nat
      /\ records \in Inputs
  BY MergeConstants DEF MergeInv, MergeTypeOK
<1>3. /\ x \in Text /\ Contents(Append(partials, x) \o f) = Contents(partials \o FlattenSeq(chunks))
      /\ Len(Append(partials, x) \o f) = Len(partials) + 1 + Len(f)
      /\ Len(partials \o FlattenSeq(chunks)) = Len(partials) + Len(h) + Len(f)
      /\ Len(partials) \in Nat /\ Len(h) \in Nat /\ Len(f) \in Nat
  BY <1>1, <1>2, WindowTaken
<1>4. /\ Contents(partials \o FlattenSeq(chunks)) = D
      /\ asked + Len(partials \o FlattenSeq(chunks)) <= Len(D)
  BY <1>1 DEF MergeInv, ReduceCovers, Covers
<1>5. Len(D) \in Nat
  BY <1>2, DescribedIs
<1> HIDE DEF h, x, f, D
<1>6. Covers(records, Current, asked', partials' \o f)
  <2>1. (asked + 1) + Len(Append(partials, x) \o f) <= Len(D)
    BY <1>1, <1>2, <1>3, <1>4, <1>5
  <2> QED
    BY <1>1, <1>3, <1>4, <2>1 DEF Covers, D
<1>7. partials' \in Seq(Text) /\ Len(partials') = Len(partials) + 1 /\ asked' \in Nat
  BY <1>1, <1>2, <1>3
<1> QED
  BY <1>1, <1>6, <1>7, WindowKeeps DEF f

LEMMA GivePartialsKeeps == ASSUME MergeInv, GivePartials PROVE MergeInv'
<1>1. /\ mergeAt = "reduce" /\ chunks = <<>> /\ asked' = asked /\ Give(Joined(partials))
      /\ UNCHANGED <<records, descs, chunks, partials>>
  BY DEF GivePartials, arguments
<1>2. partials \in Seq(Text) /\ asked \in Nat
  BY DEF MergeInv, MergeTypeOK
<1>3. Joined(partials) \in Text /\ Joined(partials).of = Contents(partials)
  BY <1>2, JoinedIsText
<1>4. TextOfAll(records, Current, Joined(partials), asked')
  BY <1>1, <1>2, <1>3, PartialsCover DEF TextOfAll
<1> QED
  BY <1>1, <1>2, <1>4, GiveKeeps

LEMMA RecurseKeeps == ASSUME MergeInv, Recurse PROVE MergeInv'
<1>1. /\ mergeAt = "reduce" /\ chunks = <<>> /\ mergeAt' = "level" /\ descs' = partials
      /\ UNCHANGED <<records, merged, chunks, partials, asked>>
  BY DEF Recurse, TooBig, arguments
<1>2. Covers(records, Current, asked, partials) /\ Len(partials) > 0
  BY <1>1, PartialsCover DEF Covers
<1>3. Current' = Current
  BY <1>1 DEF Current
<1>4. MergeTypeOK'
  BY <1>1 DEF MergeInv, MergeTypeOK
<1>5. MergedAre(records, merged)'
  BY <1>1 DEF MergeInv
<1>6. GroupUnderWay' /\ LevelCovers' /\ ReduceCovers'
  BY <1>1, <1>2, <1>3 DEF MergeInv, GroupUnderWay, LevelCovers, ReduceCovers
<1> QED
  BY <1>4, <1>5, <1>6 DEF MergeInv

\* The last level: one more call, for at least two partials.
LEMMA LastLevel ==
  ASSUME MergeInv, TooBig, asked' = asked + 1, NEW text \in Text, text.of = Contents(partials),
         Give(text), UNCHANGED <<records, descs, chunks, partials>>
  PROVE  MergeInv'
<1>1. mergeAt = "reduce" /\ chunks = <<>> /\ Len(partials) > 1
  BY DEF TooBig
<1>2. asked \in Nat
  BY DEF MergeInv, MergeTypeOK
<1>3. TextOfAll(records, Current, text, asked')
  BY <1>1, <1>2, PartialsCover DEF TextOfAll
<1> QED
  BY <1>1, <1>2, <1>3, GiveKeeps

LEMMA GiveFinalKeeps == ASSUME MergeInv, NEW size \in AnswerSizes, GiveFinal(size) PROVE MergeInv'
<1> DEFINE text == [tokens |-> size, of |-> Contents(partials)]
<1>1. TooBig /\ asked' = asked + 1 /\ Give(text) /\ UNCHANGED <<records, descs, chunks, partials>>
  BY DEF GiveFinal, arguments
<1>2. partials \in Seq(Text) /\ size \in Nat
  BY MergeConstants DEF MergeInv, MergeTypeOK
<1>3. text \in Text /\ text.of = Contents(partials)
  BY <1>2, JoinedIsText DEF Text
<1> HIDE DEF text
<1> QED
  BY <1>1, <1>3, LastLevel

LEMMA GiveUnsummarizedKeeps == ASSUME MergeInv, GiveUnsummarized PROVE MergeInv'
<1>1. TooBig /\ asked' = asked + 1 /\ Give(Joined(partials))
      /\ UNCHANGED <<records, descs, chunks, partials>>
  BY DEF GiveUnsummarized, arguments
<1>2. Joined(partials) \in Text /\ Joined(partials).of = Contents(partials)
  BY JoinedIsText DEF MergeInv, MergeTypeOK
<1> QED
  BY <1>1, <1>2, LastLevel

LEMMA MergeUnchanged ==
  ASSUME MergeInv, UNCHANGED <<records, mergeAt, merged, descs, chunks, partials, asked>>
  PROVE  MergeInv'
<1>1. Current' = Current
  BY DEF Current
<1> QED
  BY <1>1 DEF MergeInv, MergeTypeOK, GroupUnderWay, LevelCovers, ReduceCovers

\* The invariant of a merge: the results there are were made of all records of
\* their groups, and the texts under way of all descriptions of theirs
\* (MergeEntities, summarizeWithName).
THEOREM MergeInvariant == MergeSpec => []MergeInv
<1>1. ASSUME MergeInv, [MergeNext]_mergeVars
      PROVE  MergeInv'
  <2>0. asked \in Nat
    BY <1>1 DEF MergeInv, MergeTypeOK
  <2>1. CASE BeginGroup
    BY <1>1, <2>1, BeginGroupKeeps
  <2>2. CASE Finish
    BY <1>1, <2>0, <2>2, MergeStays DEF Finish, arguments
  <2>3. CASE GiveAsIs
    BY <1>1, <2>3, GiveAsIsKeeps
  <2>4. CASE Split
    BY <1>1, <2>4, SplitKeeps
  <2>5. CASE PassThrough
    BY <1>1, <2>5, PassThroughKeeps
  <2>6. CASE \E size \in AnswerSizes : Reduce(size) \/ GiveFinal(size)
    BY <1>1, <2>6, ReduceKeeps, GiveFinalKeeps
  <2>7. CASE ReduceFails
    <3>1. asked' \in Nat
      BY <2>0, <2>7 DEF ReduceFails
    <3> QED
      BY <1>1, <2>7, <3>1, MergeStays DEF ReduceFails, MergeFails, arguments
  <2>8. CASE Cancelled
    BY <1>1, <2>0, <2>8, MergeStays DEF Cancelled, MergeFails, arguments
  <2>9. CASE GivePartials
    BY <1>1, <2>9, GivePartialsKeeps
  <2>10. CASE Recurse
    BY <1>1, <2>10, RecurseKeeps
  <2>11. CASE GiveUnsummarized
    BY <1>1, <2>11, GiveUnsummarizedKeeps
  <2>12. CASE CancelMerge
    BY <1>1, <2>12, MergeUnchanged DEF CancelMerge, arguments
  <2>13. CASE MergeReturned \/ UNCHANGED mergeVars
    BY <1>1, <2>13, MergeUnchanged DEF MergeReturned, mergeVars, arguments
  <2> QED
    BY <1>1, <2>1, <2>2, <2>3, <2>4, <2>5, <2>6, <2>7, <2>8, <2>9, <2>10, <2>11, <2>12, <2>13
       DEF MergeNext
<1> QED
  BY <1>1, MergeInitInv, PTL DEF MergeSpec

-----------------------------------------------------------------------------
(* The merge: its properties.                                              *)

\* Results are those of the invariant.
LEMMA ResultsAre ==
  ASSUME MergeInv
  PROVE  \A k \in DOMAIN merged :
           /\ k \in DOMAIN Names(records) /\ merged[k].name = Names(records)[k]
           /\ merged[k].text.of = Described(records, merged[k].name)
           /\ merged[k].sources = Sources(Group(records, merged[k].name))
           /\ merged[k].keywords = KeywordsSeen(Group(records, merged[k].name))
           /\ merged[k].asked \in Nat
           /\ merged[k].asked # 0 => merged[k].asked < Len(Described(records, merged[k].name))
<1>1. records \in Inputs /\ merged \in Seq(Results(records)) /\ Len(merged) <= Len(Names(records))
  BY DEF MergeInv, MergeTypeOK, MergedAre
<1>2. Len(Names(records)) \in Nat /\ DOMAIN Names(records) = 1..Len(Names(records))
  BY <1>1, NamesAre
<1>3. Len(merged) \in Nat /\ DOMAIN merged = 1..Len(merged)
  BY <1>1
<1> SUFFICES ASSUME NEW k \in DOMAIN merged
             PROVE  /\ k \in DOMAIN Names(records) /\ merged[k].name = Names(records)[k]
                    /\ merged[k].text.of = Described(records, merged[k].name)
                    /\ merged[k].sources = Sources(Group(records, merged[k].name))
                    /\ merged[k].keywords = KeywordsSeen(Group(records, merged[k].name))
                    /\ merged[k].asked \in Nat
                    /\ merged[k].asked # 0 =>
                         merged[k].asked < Len(Described(records, merged[k].name))
  OBVIOUS
<1>4. k \in DOMAIN Names(records)
  BY <1>1, <1>2, <1>3
<1>5. PICK t \in Text, n \in Nat : /\ merged[k] = ResultOf(records, k, t, n)
                                   /\ TextOfAll(records, Names(records)[k], t, n)
  BY DEF MergeInv, MergedAre
<1>6. /\ merged[k].name = Names(records)[k] /\ merged[k].text = t /\ merged[k].asked = n
      /\ merged[k].sources = Sources(Group(records, Names(records)[k]))
      /\ merged[k].keywords = KeywordsSeen(Group(records, Names(records)[k]))
  BY <1>5 DEF ResultOf
<1> QED
  BY <1>4, <1>5, <1>6 DEF TextOfAll

LEMMA ReduceHolds ==
  ASSUME MergeInv, mergeAt = "reduce"
  PROVE  Len(partials \o FlattenSeq(chunks)) \in Nat /\ Len(partials \o FlattenSeq(chunks)) > 0
<1>1. /\ partials \in Seq(Text) /\ chunks \in Seq(Seq(Text)) /\ Len(partials) + Len(chunks) > 0
      /\ \A i \in DOMAIN chunks : Len(chunks[i]) > 0
  BY DEF MergeInv, MergeTypeOK, ReduceCovers
<1>2. CASE chunks = <<>>
  <2>1. partials \o FlattenSeq(chunks) = partials /\ Len(chunks) = 0
    BY <1>1, <1>2, FlattenEmpty
  <2>2. Len(partials) \in Nat
    BY <1>1
  <2> QED
    BY <1>1, <2>1, <2>2
<1>3. CASE chunks # <<>>
  <2> DEFINE p == Len(partials)
             h == Len(Head(chunks))
             f == Len(FlattenSeq(Tail(chunks)))
  <2>1. 0 \in Nat
    OBVIOUS
  <2>2. Len(partials \o FlattenSeq(chunks)) = p + h + f /\ p \in Nat /\ h \in Nat /\ f \in Nat
    BY <1>1, <1>3, <2>1, WindowTaken
  <2>3. 1 \in DOMAIN chunks /\ Head(chunks) = chunks[1]
    BY <1>1, <1>3, EmptySeq
  <2>4. h > 0
    BY <1>1, <2>3
  <2> HIDE DEF p, h, f
  <2> QED
    BY <2>2, <2>4
<1> QED
  BY <1>2, <1>3

\* Every level at least halves the number of texts, and n descriptions cost at
\* most n - 1 calls of the model (chunkByTokens, summarizeWithName).
THEOREM MergeProgresses == MergeSpec => []EveryLevelMakesProgress
<1>1. ASSUME MergeInv PROVE EveryLevelMakesProgress
  <2> DEFINE D == Described(records, Current)
  <2>1. /\ records \in Inputs /\ descs \in Seq(Text) /\ partials \in Seq(Text)
        /\ chunks \in Seq(Seq(Text)) /\ asked \in Nat
    BY <1>1 DEF MergeInv, MergeTypeOK
  <2>2. Len(D) \in Nat /\ Len(descs) \in Nat /\ Len(partials) \in Nat /\ Len(chunks) \in Nat
    BY <2>1, DescribedIs
  <2>3. mergeAt = "reduce" => Len(partials) + Len(chunks) <= (Len(descs) + 1) \div 2
    <3>1. \A x, y \in Nat : 2 * x <= y + 1 => x <= (y + 1) \div 2
      OBVIOUS
    <3> SUFFICES ASSUME mergeAt = "reduce"
                 PROVE  Len(partials) + Len(chunks) <= (Len(descs) + 1) \div 2
      OBVIOUS
    <3>2. 2 * (Len(partials) + Len(chunks)) <= Len(descs) + 1
      BY <1>1 DEF MergeInv, ReduceCovers
    <3>3. Len(partials) + Len(chunks) \in Nat
      BY <2>2
    <3> QED
      BY <2>2, <3>1, <3>2, <3>3
  <2>4. mergeAt = "level" /\ asked # 0 => asked < Len(D)
    <3>1. mergeAt = "level" => asked + Len(descs) <= Len(D) /\ (asked # 0 => Len(descs) > 0)
      BY <1>1 DEF MergeInv, LevelCovers, Covers
    <3> HIDE DEF D
    <3> QED
      BY <2>1, <2>2, <3>1
  <2>5. mergeAt = "reduce" /\ asked # 0 => asked < Len(D)
    <3> DEFINE w == Len(partials \o FlattenSeq(chunks))
    <3>1. mergeAt = "reduce" => asked + w <= Len(D)
      BY <1>1 DEF MergeInv, ReduceCovers, Covers
    <3>2. mergeAt = "reduce" => w \in Nat /\ w > 0
      BY <1>1, ReduceHolds
    <3> HIDE DEF D, w
    <3> QED
      BY <2>1, <2>2, <3>1, <3>2
  <2>6. \A k \in DOMAIN merged :
          merged[k].asked # 0 => merged[k].asked < Len(Described(records, merged[k].name))
    BY <1>1, ResultsAre
  <2> QED
    BY <2>3, <2>4, <2>5, <2>6 DEF EveryLevelMakesProgress
<1> QED
  BY <1>1, MergeInvariant, PTL

\* A merge that succeeds has one result per name or pair of ends, made of every
\* description of its records, once and in order, and of all their weights,
\* sources and keywords (MergeEntities, MergeRelationships).
THEOREM MergeLosesNothing == MergeSpec => []EveryDescriptionOnce
<1>1. ASSUME MergeInv PROVE EveryDescriptionOnce
  <2>1. records \in Inputs /\ merged \in Seq(Results(records))
    BY <1>1 DEF MergeInv, MergeTypeOK, MergedAre
  <2>2. \A k \in DOMAIN merged :
          merged[k].text.of =
            InOrder({i \in DOMAIN records : /\ ToSet(records[i].name) = merged[k].name
                                           /\ records[i].given}, Len(records))
    BY <1>1, ResultsAre DEF Described, GroupKey
  <2>3. \A j, k \in DOMAIN merged : merged[j].name = merged[k].name => j = k
    BY <1>1, <2>1, ResultsAre, NamesAre
  <2>4. ASSUME mergeAt = "merged"
        PROVE  /\ Weight(merged) = Weight(records)
               /\ \A i \in DOMAIN records : \E k \in DOMAIN merged :
                    /\ merged[k].name = ToSet(records[i].name)
                    /\ records[i].sources \subseteq merged[k].sources
                    /\ records[i].keywords \in ToSet(merged[k].keywords) \cup {NoKeywords}
    <3>1. /\ Len(merged) = Len(Names(records))
          /\ Weight(merged) = WeightAt(records, Seen(records, Len(merged)))
      BY <1>1, <2>4 DEF MergeInv, GroupUnderWay, MergedAre
    <3>2. DOMAIN merged = 1..Len(merged) /\ DOMAIN Names(records) = 1..Len(Names(records))
      BY <2>1, NamesAre
    <3>3. \A i \in DOMAIN records : \E k \in DOMAIN merged : GroupKey(records[i]) = Names(records)[k]
      BY <2>1, <3>1, <3>2, NamesAre
    <3>4. Seen(records, Len(merged)) = DOMAIN records
      BY <3>2, <3>3 DEF Seen
    <3>5. Weight(merged) = Weight(records)
      BY <2>1, <3>1, <3>4, WeightOfAll
    <3>6. ASSUME NEW i \in DOMAIN records
          PROVE  \E k \in DOMAIN merged :
                    /\ merged[k].name = ToSet(records[i].name)
                    /\ records[i].sources \subseteq merged[k].sources
                    /\ records[i].keywords \in ToSet(merged[k].keywords) \cup {NoKeywords}
      <4>1. PICK k \in DOMAIN merged : GroupKey(records[i]) = Names(records)[k]
        BY <3>3
      <4> DEFINE name == Names(records)[k]
      <4>2. i \in PlacesOf(records, name)
        BY <4>1 DEF PlacesOf
      <4>3. /\ merged[k].name = name /\ merged[k].sources = Sources(Group(records, name))
            /\ merged[k].keywords = KeywordsSeen(Group(records, name))
        BY <1>1, ResultsAre
      <4> HIDE DEF name
      <4>4. /\ records[i].sources \subseteq Sources(Group(records, name))
            /\ records[i].keywords \in ToSet(KeywordsSeen(Group(records, name))) \cup {NoKeywords}
        BY <2>1, <4>2, GroupIs
      <4>5. name = ToSet(records[i].name)
        BY <4>1 DEF GroupKey, name
      <4> QED
        BY <4>3, <4>4, <4>5
    <3> QED
      BY <3>5, <3>6
  <2> QED
    BY <2>2, <2>3, <2>4 DEF EveryDescriptionOnce
<1> QED
  BY <1>1, MergeInvariant, PTL

=============================================================================
