----------------------------- MODULE Induction -----------------------------
(***************************************************************************)
(* Induction over the natural numbers, and the functions it defines.  The  *)
(* theorems of the standard modules take the induction hypothesis as an    *)
(* operator; here it is a set, the set of numbers for which it holds.      *)
(***************************************************************************)
EXTENDS Integers, SequencesExt, WellFoundedInduction, TLAPS

\* Every set of natural numbers that is not empty has a least element.
LEMMA LeastElement ==
  ASSUME NEW S, S \subseteq Nat, S # {}
  PROVE  \E x \in S : \A y \in S : x <= y
<1> DEFINE R == {p \in Nat \X Nat : p[1] < p[2]}
<1>1. IsWellFoundedOn(R, Nat)
  BY NatLessThanWellFounded, Zenon DEF OpToRel
<1>2. PICK x \in S : \A y \in S : <<y, x>> \notin R
  BY <1>1, WFMin, Zenon
<1>3. ASSUME NEW y \in S PROVE x <= y
  <2>1. x \in Nat /\ y \in Nat /\ ~(y < x)
    BY <1>2
  <2> QED
    BY <2>1
<1> QED
  BY <1>3

\* A set that holds zero and the successor of each of its numbers holds all.
LEMMA InductionOnNat ==
  ASSUME NEW S, 0 \in S, \A n \in Nat : n \in S => n + 1 \in S
  PROVE  Nat \subseteq S
<1> DEFINE T == Nat \ S
<1> SUFFICES ASSUME T # {} PROVE FALSE
  OBVIOUS
<1>1. PICK x \in T : \A y \in T : x <= y
  <2>1. T \subseteq Nat
    OBVIOUS
  <2> HIDE DEF T
  <2> QED BY <2>1, LeastElement
<1>2. x \in Nat /\ x # 0 /\ x - 1 \in Nat
  OBVIOUS
<1>3. x - 1 \in S
  BY <1>1, <1>2
<1> QED
  BY <1>2, <1>3

LEMMA InductionUpTo ==
  ASSUME NEW n \in Nat, NEW S, 0 \in S, \A k \in 1..n : k - 1 \in S => k \in S
  PROVE  \A k \in 0..n : k \in S
<1> DEFINE T == {k \in Nat : k <= n => k \in S}
<1>1. 0 \in T
  OBVIOUS
<1>2. ASSUME NEW k \in Nat, k \in T
      PROVE  k + 1 \in T
  <2>1. k + 1 \in Nat /\ (k + 1) - 1 = k /\ (k + 1 <= n => k <= n /\ k + 1 \in 1..n)
    OBVIOUS
  <2>2. k + 1 <= n => k + 1 \in S
    BY <1>2, <2>1
  <2> QED
    BY <2>1, <2>2
<1>3. Nat \subseteq T
  <2> HIDE DEF T
  <2> QED
    BY <1>1, <1>2, InductionOnNat
<1> QED
  BY <1>3

LEMMA Greatest ==
  ASSUME NEW n \in Nat, NEW S, S \subseteq 0..n, S # {}
  PROVE  \E x \in S : \A y \in S : y <= x
<1> DEFINE T == {n - x : x \in S}
<1>1. T \subseteq Nat /\ T # {}
  <2>1. ASSUME NEW x \in S PROVE n - x \in Nat
    <3>1. x \in 0..n
      OBVIOUS
    <3> QED
      BY <3>1
  <2> QED
    BY <2>1
<1> HIDE DEF T
<1>2. PICK t \in T : \A y \in T : t <= y
  BY <1>1, LeastElement
<1>3. PICK x \in S : t = n - x
  BY <1>2 DEF T
<1>4. ASSUME NEW y \in S PROVE y <= x
  <2>1. t <= n - y
    BY <1>2 DEF T
  <2>2. x \in 0..n /\ y \in 0..n
    OBVIOUS
  <2> QED
    BY <1>3, <2>1, <2>2
<1> QED
  BY <1>4

LEMMA MaxOfInterval ==
  ASSUME NEW n \in Nat, NEW S, S \subseteq 1..n, S # {}
  PROVE  Max(S) \in S /\ \A y \in S : y <= Max(S)
<1>1. S \subseteq 0..n
  OBVIOUS
<1>2. PICK x \in S : \A y \in S : y <= x
  BY <1>1, Greatest
<1>3. ASSUME NEW y \in S PROVE x >= y
  <2>1. x \in 0..n /\ y \in 0..n
    BY <1>1
  <2> QED
    BY <1>2, <2>1
<1>4. Max(S) \in S /\ \A y \in S : Max(S) >= y
  BY <1>3 DEF Max
<1>5. \A y \in S : y \in Int
  BY <1>1
<1> QED
  BY <1>4, <1>5

\* The function a fold over 1..n computes with, when every step h stays in V.
Iterates(n, base, h, f) ==
  f = [s \in SUBSET (1..n) |-> IF s = {} THEN base ELSE h[Max(s)][f[s \ {Max(s)}]]]

LEMMA IterationExists ==
  ASSUME NEW n \in Nat, NEW V, NEW base \in V, NEW h,
         \A v \in V, k \in 1..n : h[k][v] \in V
  PROVE  \E f \in [SUBSET (1..n) -> V] : Iterates(n, base, h, f)
<1> DEFINE P == {m \in Nat : m <= n => \E f \in [SUBSET (1..m) -> V] : Iterates(m, base, h, f)}
<1>1. 0 \in P
  <2> DEFINE f == [s \in SUBSET (1..0) |-> base]
  <2>1. 1..0 = {}
    OBVIOUS
  <2>2. f \in [SUBSET (1..0) -> V] /\ Iterates(0, base, h, f)
    BY <2>1 DEF Iterates
  <2> QED
    BY <2>2
<1>2. ASSUME NEW m \in Nat, m \in P
      PROVE  m + 1 \in P
  <2>0. m + 1 \in Nat
    OBVIOUS
  <2> SUFFICES ASSUME m + 1 <= n
               PROVE  \E f \in [SUBSET (1..(m + 1)) -> V] : Iterates(m + 1, base, h, f)
    BY <2>0
  <2>7. m <= n
    OBVIOUS
  <2>1. PICK g \in [SUBSET (1..m) -> V] : Iterates(m, base, h, g)
    BY <1>2, <2>7
  <2> HIDE DEF P
  <2>2. ASSUME NEW s \in SUBSET (1..(m + 1)), s # {}
        PROVE  Max(s) \in 1..n /\ s \ {Max(s)} \in SUBSET (1..m)
    <3>1. s \subseteq 1..(m + 1)
      OBVIOUS
    <3>2. Max(s) \in s /\ \A y \in s : y <= Max(s)
      BY <2>0, <2>2, <3>1, MaxOfInterval
    <3>3. PICK x \in 1..(m + 1) : x = Max(s)
      BY <3>1, <3>2
    <3>4. x \in 1..n
      BY <2>0
    <3>5. ASSUME NEW y \in s, y # x PROVE y \in 1..m
      <4>1. y \in 1..(m + 1) /\ y <= x
        BY <3>1, <3>2, <3>3
      <4> QED
        BY <3>5, <4>1
    <3> QED
      BY <3>3, <3>4, <3>5
  <2> DEFINE f == [s \in SUBSET (1..(m + 1)) |->
                     IF s = {} THEN base ELSE h[Max(s)][g[s \ {Max(s)}]]]
  <2>3. f \in [SUBSET (1..(m + 1)) -> V]
    BY <2>2
  <2>4. ASSUME NEW s \in SUBSET (1..m)
        PROVE  f[s] = g[s]
    <3>1. s \in SUBSET (1..(m + 1))
      OBVIOUS
    <3>2. f[s] = IF s = {} THEN base ELSE h[Max(s)][g[s \ {Max(s)}]]
      BY <3>1
    <3>3. g[s] = IF s = {} THEN base ELSE h[Max(s)][g[s \ {Max(s)}]]
      BY <2>1 DEF Iterates
    <3> QED
      BY <3>2, <3>3
  <2>5. \A s \in SUBSET (1..(m + 1)) :
          f[s] = IF s = {} THEN base ELSE h[Max(s)][f[s \ {Max(s)}]]
    <3> SUFFICES ASSUME NEW s \in SUBSET (1..(m + 1)), s # {}
                 PROVE  f[s] = h[Max(s)][f[s \ {Max(s)}]]
      OBVIOUS
    <3>1. f[s] = h[Max(s)][g[s \ {Max(s)}]]
      OBVIOUS
    <3>2. f[s \ {Max(s)}] = g[s \ {Max(s)}]
      BY <2>2, <2>4
    <3> QED
      BY <3>1, <3>2
  <2> HIDE DEF f
  <2>6. Iterates(m + 1, base, h, f)
    BY <2>3, <2>5 DEF Iterates
  <2> QED
    BY <2>3, <2>6
<1>3. Nat \subseteq P
  <2> HIDE DEF P
  <2> QED
    BY <1>1, <1>2, InductionOnNat
<1> QED
  BY <1>3

LEMMA Prefix ==
  ASSUME NEW n \in Nat, NEW k \in Nat, NEW l, l = k + 1, l <= n
  PROVE  /\ 1..l \in SUBSET (1..n) /\ 1..l # {}
         /\ Max(1..l) = l
         /\ (1..l) \ {l} = 1..k
<1>1. 1..l \subseteq 1..n /\ l \in 1..l
  OBVIOUS
<1>2. Max(1..l) \in 1..l /\ \A y \in 1..l : y <= Max(1..l)
  BY <1>1, MaxOfInterval
<1>3. Max(1..l) = l
  BY <1>1, <1>2
<1> QED
  BY <1>1, <1>3

\* The same function, step by step.
Steps(n, V, base, h, f) ==
  /\ f[{}] = base
  /\ \A s \in SUBSET (1..n) : s # {} =>
       /\ Max(s) \in 1..n
       /\ f[s \ {Max(s)}] \in V
       /\ f[s] = h[Max(s)][f[s \ {Max(s)}]]

LEMMA IterationSteps ==
  ASSUME NEW n \in Nat, NEW V, NEW base \in V, NEW h,
         \A v \in V, k \in 1..n : h[k][v] \in V
  PROVE  \E f \in [SUBSET (1..n) -> V] : Steps(n, V, base, h, f)
<1>1. PICK f \in [SUBSET (1..n) -> V] : Iterates(n, base, h, f)
  BY IterationExists
<1>2. \A s \in SUBSET (1..n) : f[s] = IF s = {} THEN base ELSE h[Max(s)][f[s \ {Max(s)}]]
  BY <1>1 DEF Iterates
<1>3. ASSUME NEW s \in SUBSET (1..n), s # {}
      PROVE  /\ Max(s) \in 1..n
             /\ f[s \ {Max(s)}] \in V
             /\ f[s] = h[Max(s)][f[s \ {Max(s)}]]
  <2>1. s \subseteq 1..n
    OBVIOUS
  <2>2. Max(s) \in s
    BY <1>3, <2>1, MaxOfInterval
  <2>3. Max(s) \in 1..n /\ s \ {Max(s)} \in SUBSET (1..n)
    BY <2>1, <2>2
  <2> QED
    BY <1>2, <1>3, <2>3
<1>4. Steps(n, V, base, h, f)
  BY <1>2, <1>3 DEF Steps
<1> QED
  BY <1>4

\* Whatever function g makes these steps as long as it stays in V goes through
\* the values a of a sequence in V.
Follows(n, V, base, h, g) ==
  /\ g[{}] = base
  /\ \A s \in SUBSET (1..n) :
       s # {} /\ g[s \ {Max(s)}] \in V => g[s] = h[Max(s)][g[s \ {Max(s)}]]

Traces(n, base, h, g, a) ==
  /\ a[0] = base /\ a[n] = g[1..n]
  /\ \A k \in 1..n : a[k] = h[k][a[k - 1]]

LEMMA Trace ==
  ASSUME NEW n \in Nat, NEW V, NEW base \in V, NEW h,
         \A v \in V, k \in 1..n : h[k][v] \in V,
         NEW g, Follows(n, V, base, h, g)
  PROVE  \E a \in [0..n -> V] : Traces(n, base, h, g, a)
<1> DEFINE S == {k \in Nat : k <= n => g[1..k] \in V}
<1>1. 0 \in S
  <2>1. 1..0 = {}
    OBVIOUS
  <2> QED
    BY <2>1 DEF Follows
<1>2. ASSUME NEW k \in Nat, NEW l, l = k + 1, l <= n, g[1..k] \in V
      PROVE  g[1..l] = h[l][g[1..k]] /\ g[1..l] \in V
  <2>1. /\ 1..l \in SUBSET (1..n) /\ 1..l # {}
        /\ Max(1..l) = l
        /\ (1..l) \ {l} = 1..k
    BY <1>2, Prefix
  <2> DEFINE s == 1..l
  <2>2. l \in 1..n
    BY <1>2
  <2>3. s \in SUBSET (1..n) /\ s # {} /\ Max(s) = l /\ g[s \ {Max(s)}] = g[1..k]
    BY <2>1
  <2> HIDE DEF s
  <2>4. g[s] = h[l][g[1..k]]
    BY <1>2, <2>3 DEF Follows
  <2> QED
    BY <1>2, <2>2, <2>4 DEF s
<1>3. ASSUME NEW k \in Nat, k \in S
      PROVE  k + 1 \in S
  <2>1. k + 1 \in Nat /\ (k + 1 <= n => k <= n)
    OBVIOUS
  <2>2. k + 1 <= n => g[1..(k + 1)] \in V
    BY <1>2, <1>3, <2>1
  <2> QED
    BY <2>1, <2>2
<1>4. Nat \subseteq S
  <2> HIDE DEF S
  <2> QED
    BY <1>1, <1>3, InductionOnNat
<1>5. \A k \in 0..n : g[1..k] \in V
  BY <1>4
<1> DEFINE a == [k \in 0..n |-> g[1..k]]
<1>6. a \in [0..n -> V] /\ a[n] = g[1..n]
  BY <1>5
<1>7. a[0] = base
  <2>1. 1..0 = {}
    OBVIOUS
  <2> QED
    BY <2>1 DEF Follows
<1>8. ASSUME NEW k \in 1..n
      PROVE  a[k] = h[k][a[k - 1]]
  <2>1. k - 1 \in 0..n /\ k \in 0..n /\ k - 1 \in Nat /\ k = (k - 1) + 1 /\ k <= n
    OBVIOUS
  <2>2. g[1..k] = h[k][g[1..(k - 1)]]
    BY <1>2, <1>5, <2>1
  <2> QED
    BY <2>1, <2>2
<1>9. Traces(n, base, h, g, a)
  BY <1>6, <1>7, <1>8 DEF Traces
<1> QED
  BY <1>6, <1>9

-----------------------------------------------------------------------------
(* Sequences of sequences.                                                 *)

Chained(ss, n, f) == f = [i \in 1..n |-> IF i = 1 THEN ss[i] ELSE f[i - 1] \o ss[i]]

LEMMA FlattenIs ==
  ASSUME NEW ss, Len(ss) # 0
  PROVE  FlattenSeq(ss) = (CHOOSE f : Chained(ss, Len(ss), f))[Len(ss)]
BY Zenon DEF FlattenSeq, Chained

LEMMA ChainExists ==
  ASSUME NEW S, NEW ss \in Seq(Seq(S)), Len(ss) # 0
  PROVE  \A n \in Nat : n <= Len(ss) => \E f \in [1..n -> Seq(S)] : Chained(ss, n, f)
<1> DEFINE P == {n \in Nat : n <= Len(ss) => \E f \in [1..n -> Seq(S)] : Chained(ss, n, f)}
<1>1. 0 \in P
  <2> DEFINE f == [i \in 1..0 |-> <<>>]
  <2>1. f \in [1..0 -> Seq(S)] /\ Chained(ss, 0, f)
    BY DEF Chained
  <2> QED
    BY <2>1
<1>2. \A n \in Nat : n \in P => n + 1 \in P
  <2> SUFFICES ASSUME NEW n \in Nat, n \in P, n + 1 <= Len(ss)
               PROVE  \E f \in [1..(n + 1) -> Seq(S)] : Chained(ss, n + 1, f)
    OBVIOUS
  <2>1. PICK f \in [1..n -> Seq(S)] : Chained(ss, n, f)
    OBVIOUS
  <2> HIDE DEF P
  <2>2. \A i \in 1..n : f[i] = IF i = 1 THEN ss[i] ELSE f[i - 1] \o ss[i]
    BY <2>1 DEF Chained
  <2>3. \A i \in 1..(n + 1) : ss[i] \in Seq(S)
    OBVIOUS
  <2> DEFINE g == [i \in 1..(n + 1) |-> IF i = 1 THEN ss[i] ELSE f[i - 1] \o ss[i]]
  <2>4. g \in [1..(n + 1) -> Seq(S)]
    <3> SUFFICES ASSUME NEW i \in 1..(n + 1) PROVE g[i] \in Seq(S)
      OBVIOUS
    <3>1. i # 1 => i - 1 \in 1..n
      OBVIOUS
    <3> QED
      BY <2>3, <3>1
  <2>5. ASSUME NEW i \in 1..n PROVE g[i] = f[i]
    <3>1. i \in 1..(n + 1)
      OBVIOUS
    <3>2. g[i] = IF i = 1 THEN ss[i] ELSE f[i - 1] \o ss[i]
      BY <3>1
    <3> QED
      BY <2>2, <3>2
  <2>6. \A i \in 1..(n + 1) : g[i] = IF i = 1 THEN ss[i] ELSE g[i - 1] \o ss[i]
    <3> SUFFICES ASSUME NEW i \in 1..(n + 1), i # 1 PROVE g[i] = g[i - 1] \o ss[i]
      OBVIOUS
    <3>1. i - 1 \in 1..n
      OBVIOUS
    <3>2. g[i] = f[i - 1] \o ss[i]
      OBVIOUS
    <3> QED
      BY <2>5, <3>1, <3>2
  <2> HIDE DEF g
  <2>7. Chained(ss, n + 1, g)
    BY <2>4, <2>6 DEF Chained
  <2> QED
    BY <2>4, <2>7
<1>3. Nat \subseteq P
  <2> HIDE DEF P
  <2> QED
    BY <1>1, <1>2, InductionOnNat
<1> QED
  BY <1>3

LEMMA FlattenSteps ==
  ASSUME NEW S, NEW ss \in Seq(Seq(S)), Len(ss) # 0
  PROVE  \E f \in [1..Len(ss) -> Seq(S)] : Chained(ss, Len(ss), f) /\ FlattenSeq(ss) = f[Len(ss)]
<1> DEFINE n == Len(ss)
           f == CHOOSE g : Chained(ss, n, g)
<1>1. n \in Nat /\ n # 0 /\ \A i \in 1..n : ss[i] \in Seq(S)
  OBVIOUS
<1>2. Chained(ss, n, f)
  <2>1. \E g : Chained(ss, n, g)
    BY ChainExists
  <2> QED
    BY <2>1
<1> HIDE DEF f
<1>3. \A i \in 1..n : f[i] = IF i = 1 THEN ss[i] ELSE f[i - 1] \o ss[i]
  BY <1>2 DEF Chained
<1> HIDE DEF n
<1> DEFINE P == {i \in 0..n : i = 0 \/ f[i] \in Seq(S)}
<1>4. ASSUME NEW i \in 1..n, i - 1 \in P
      PROVE  i \in P
  <2>1. CASE i = 1
    BY <1>1, <1>3, <2>1
  <2>2. CASE i # 1
    <3>1. i - 1 # 0 /\ i \in 0..n
      BY <1>1, <2>2
    <3>2. f[i - 1] \in Seq(S) /\ f[i] = f[i - 1] \o ss[i]
      BY <1>3, <1>4, <2>2, <3>1
    <3>3. f[i] \in Seq(S)
      BY <1>1, <3>2
    <3> QED
      BY <3>1, <3>3
  <2> QED
    BY <2>1, <2>2
<1>5. \A i \in 0..n : i \in P
  <2>1. 0 \in P
    BY <1>1
  <2> HIDE DEF P
  <2> QED
    BY <1>1, <1>4, <2>1, InductionUpTo
<1>6. \A i \in 1..n : f[i] \in Seq(S)
  <2>1. \A i \in 1..n : i \in 0..n /\ i # 0
    BY <1>1
  <2> QED
    BY <1>5, <2>1
<1>7. f \in [1..n -> Seq(S)]
  BY <1>2, <1>6 DEF Chained
<1> QED
  BY <1>2, <1>7, FlattenIs DEF f, n

\* Joining sequences one after the other makes a sequence of what they hold.
LEMMA FlattenIsSeq ==
  ASSUME NEW S, NEW ss \in Seq(Seq(S))
  PROVE  FlattenSeq(ss) \in Seq(S)
<1>1. CASE Len(ss) = 0
  <2>1. FlattenSeq(ss) = ss /\ ss = <<>>
    BY <1>1 DEF FlattenSeq
  <2> QED
    BY <2>1
<1>2. CASE Len(ss) # 0
  <2>1. Len(ss) \in 1..Len(ss)
    BY <1>2
  <2>2. PICK f \in [1..Len(ss) -> Seq(S)] : Chained(ss, Len(ss), f) /\ FlattenSeq(ss) = f[Len(ss)]
    BY <1>2, FlattenSteps
  <2> QED
    BY <2>1, <2>2
<1> QED
  BY <1>1, <1>2

LEMMA ConcatHolds ==
  ASSUME NEW S, NEW s \in Seq(S), NEW t \in Seq(S)
  PROVE  ToSet(s \o t) = ToSet(s) \cup ToSet(t)
<1> DEFINE m == Len(s)
           n == Len(t)
           st == s \o t
<1>1. /\ m \in Nat /\ n \in Nat /\ DOMAIN st = 1..(m + n) /\ DOMAIN s = 1..m /\ DOMAIN t = 1..n
      /\ \A i \in 1..m : st[i] = s[i]
      /\ \A i \in (m + 1)..(m + n) : st[i] = t[i - m]
  OBVIOUS
<1> HIDE DEF m, n, st
<1>2. ASSUME NEW i \in 1..(m + n)
      PROVE  st[i] \in ToSet(s) \cup ToSet(t)
  <2>1. CASE i \in 1..m
    BY <1>1, <2>1 DEF ToSet
  <2>2. CASE i \notin 1..m
    <3>1. i \in (m + 1)..(m + n) /\ i - m \in 1..n
      BY <1>1, <2>2
    <3> QED
      BY <1>1, <3>1 DEF ToSet
  <2> QED
    BY <2>1, <2>2
<1>3. ASSUME NEW i \in 1..m
      PROVE  s[i] \in ToSet(st)
  <2>1. i \in 1..(m + n)
    BY <1>1
  <2> QED
    BY <1>1, <2>1 DEF ToSet
<1>4. ASSUME NEW i \in 1..n
      PROVE  t[i] \in ToSet(st)
  <2>1. i + m \in 1..(m + n) /\ i + m \in (m + 1)..(m + n) /\ (i + m) - m = i
    BY <1>1
  <2>2. st[i + m] = t[i]
    BY <1>1, <2>1
  <2> QED
    BY <1>1, <2>1, <2>2 DEF ToSet
<1>5. \A x \in ToSet(st) : x \in ToSet(s) \cup ToSet(t)
  BY <1>1, <1>2 DEF ToSet
<1>6. \A x \in ToSet(s) : x \in ToSet(st)
  BY <1>1, <1>3 DEF ToSet
<1>7. \A x \in ToSet(t) : x \in ToSet(st)
  BY <1>1, <1>4 DEF ToSet
<1>8. ToSet(st) = ToSet(s) \cup ToSet(t)
  BY <1>5, <1>6, <1>7
<1> QED
  BY <1>8 DEF st

LEMMA FlattenHolds ==
  ASSUME NEW S, NEW ss \in Seq(Seq(S))
  PROVE  ToSet(FlattenSeq(ss)) = UNION {ToSet(ss[i]) : i \in DOMAIN ss}
<1> DEFINE n == Len(ss)
           U(k) == UNION {ToSet(ss[i]) : i \in 1..k}
<1>1. n \in Nat /\ DOMAIN ss = 1..n /\ \A i \in 1..n : ss[i] \in Seq(S)
  OBVIOUS
<1>2. CASE n = 0
  <2>1. FlattenSeq(ss) = ss /\ ss = <<>> /\ DOMAIN ss = {}
    BY <1>2 DEF FlattenSeq
  <2> QED
    BY <2>1 DEF ToSet
<1>3. CASE n # 0
  <2>1. PICK f \in [1..n -> Seq(S)] : Chained(ss, n, f) /\ FlattenSeq(ss) = f[n]
    BY <1>3, FlattenSteps
  <2>2. \A i \in 1..n : f[i] = IF i = 1 THEN ss[i] ELSE f[i - 1] \o ss[i]
    BY <2>1 DEF Chained
  <2> HIDE DEF n
  <2> DEFINE P == {i \in 0..n : i = 0 \/ ToSet(f[i]) = U(i)}
  <2>3. ASSUME NEW i \in 1..n, i - 1 \in P
        PROVE  i \in P
    <3>1. CASE i = 1
      <4>1. 1..1 = {1}
        OBVIOUS
      <4>2. U(1) = ToSet(ss[1])
        BY <4>1
      <4> QED
        BY <1>1, <2>2, <3>1, <4>2
    <3>2. CASE i # 1
      <4>1. i - 1 \in 1..n /\ f[i] = f[i - 1] \o ss[i] /\ ToSet(f[i - 1]) = U(i - 1)
        <5>1. i - 1 \in 1..n
          BY <1>1, <3>2
        <5>2. f[i] = f[i - 1] \o ss[i]
          BY <2>2, <3>2
        <5>3. ToSet(f[i - 1]) = U(i - 1)
          BY <2>3, <3>2
        <5> QED
          BY <5>1, <5>2, <5>3
      <4>2. ToSet(f[i]) = U(i - 1) \cup ToSet(ss[i])
        BY <1>1, <4>1, ConcatHolds
      <4>3. 1..i = 1..(i - 1) \cup {i}
        BY <1>1
      <4>4. U(i) = U(i - 1) \cup ToSet(ss[i])
        BY <4>3
      <4>5. ToSet(f[i]) = U(i) /\ i \in 0..n
        BY <1>1, <4>2, <4>4
      <4> HIDE DEF U
      <4> QED
        BY <4>5
    <3> QED
      BY <3>1, <3>2
  <2>4. 0 \in P
    BY <1>1
  <2>5. \A i \in 0..n : i \in P
    <3> HIDE DEF P
    <3> QED
      BY <1>1, <2>3, <2>4, InductionUpTo
  <2>6. n \in 0..n
    BY <1>1
  <2>7. ToSet(f[n]) = U(n)
    BY <1>3, <2>5, <2>6
  <2> QED
    BY <1>1, <2>1, <2>7
<1> QED
  BY <1>2, <1>3

=============================================================================
